---- MODULE Spec2Model ----
(***************************************************************************)
(* Model of src/app.py: the scenario store, the attendance ledger, the     *)
(* audit trail and the payout engine of the project settlement app.        *)
(*                                                                         *)
(* The SQLite database is a record of tables; every table is a set of      *)
(* rows carrying the AUTOINCREMENT id the code relies on.  Every function  *)
(* of app.py that touches the database is an operator from a database      *)
(* value (and its arguments) to the record [db, ret]: the database after   *)
(* the call and the value returned.  A call that closes its connection     *)
(* without commit returns the database it started from (rollback).         *)
(*                                                                         *)
(* Python numbers are triples <<n, d, f>>: the exact value n/d in lowest   *)
(* terms (d > 0) and f = 1 for a float, 0 for an int.  Their arithmetic is *)
(* exact rational arithmetic, without the binary rounding of IEEE doubles; *)
(* the section Binary64 computes the payout report again with every float  *)
(* operation rounded as the machine rounds it.                             *)
(***************************************************************************)
EXTENDS Integers, Sequences, FiniteSets, TLC

VARIABLES scenarios, scenario_shares, audit_log, projects, worklog, users, seq,
          now, last_op, last_args, last_ret, prev_op, prev_args, prev_ret,
          txn_pc, txn

vars == <<txn_pc, last_op, prev_op, scenarios, scenario_shares, audit_log,
          projects, worklog, users, seq, now, last_args, last_ret, prev_args,
          prev_ret, txn>>

-----------------------------------------------------------------------------
(* Python numbers *)

Abs(x) == IF x < 0 THEN -x ELSE x

RECURSIVE GCD(_, _)
GCD(a, b) == IF b = 0 THEN a ELSE GCD(b, a % b)

Norm(n, d, f) ==
    LET g == GCD(Abs(n), d)
    IN  IF n = 0 THEN <<0, 1, f>> ELSE <<n \div g, d \div g, f>>

PyInt(n) == <<n, 1, 0>>

PyFloat(n, d) == Norm(n, d, 1)

IsFloat(a, b) == IF a[3] = 1 \/ b[3] = 1 THEN 1 ELSE 0

NumAdd(a, b) ==
    LET g == GCD(a[2], b[2])
        l == (a[2] \div g) * b[2]
    IN  Norm(a[1] * (l \div a[2]) + b[1] * (l \div b[2]), l, IsFloat(a, b))

NumNeg(a) == <<-a[1], a[2], a[3]>>

NumSub(a, b) == NumAdd(a, NumNeg(b))

NumMul(a, b) ==
    LET g1 == GCD(Abs(a[1]), b[2])
        g2 == GCD(Abs(b[1]), a[2])
    IN  IF a[1] = 0 \/ b[1] = 0 THEN <<0, 1, IsFloat(a, b)>>
        ELSE <<(a[1] \div g1) * (b[1] \div g2),
               (a[2] \div g2) * (b[2] \div g1), IsFloat(a, b)>>

\* Python's true division: the result is always a float; b is not zero.
NumDiv(a, b) ==
    LET r == IF b[1] < 0 THEN <<-b[2], -b[1], 1>> ELSE <<b[2], b[1], 1>>
        p == NumMul(a, r)
    IN  <<p[1], p[2], 1>>

NumLt(a, b) ==
    LET g == GCD(a[2], b[2])
    IN  a[1] * (b[2] \div g) < b[1] * (a[2] \div g)

NumEq(a, b) == a[1] = b[1] /\ a[2] = b[2]

NumAbs(a) == <<Abs(a[1]), a[2], a[3]>>

\* A value stored in a REAL column is read back as a float.
ToReal(a) == <<a[1], a[2], 1>>

\* sum(...) over the values m[k], k \in S, starting from the int 0.
RECURSIVE NumSum(_, _)
NumSum(m, S) ==
    IF S = {} THEN PyInt(0)
    ELSE LET k == CHOOSE x \in S : TRUE
         IN  NumAdd(NumSum(m, S \ {k}), m[k])

-----------------------------------------------------------------------------
(* Module-level tables of app.py *)

DEFAULT_PARTNERS == <<"W1", "W2", "W3">>

ScenarioOrder == <<"Scenariusz 1", "Scenariusz 2", "Scenariusz 3">>

SCENARIOS ==
    [n \in {"Scenariusz 1", "Scenariusz 2", "Scenariusz 3"} |->
        CASE n = "Scenariusz 1" ->
                [p \in {"W1", "W2", "W3"} |->
                    IF p = "W1" THEN PyInt(40) ELSE PyInt(30)]
          [] n = "Scenariusz 2" ->
                [p \in {"W1", "W2", "W3"} |->
                    IF p = "W1" THEN PyInt(50) ELSE PyInt(25)]
          [] OTHER ->
                [p \in {"W1", "W2", "W3"} |->
                    IF p = "W3" THEN PyFloat(3334, 100) ELSE PyFloat(3333, 100)]]

FIRM_PERCENTAGE == 3

\* Python's None, for a name or a description.
None == "<None>"

\* SQL NULL in the old_value / new_value column, and the text json.dumps writes.
Null == <<"null">>

json_dumps(x) == <<"json", x>>

\* The keys of a dict in iteration order: partners are kept in one fixed order.
DictKeys(m) == SelectSeq(<<"W1", "W2", "W3", "W4">>, LAMBDA p : p \in DOMAIN m)

-----------------------------------------------------------------------------
(* The database *)

EmptyDB ==
    [scenarios |-> {}, scenario_shares |-> {}, audit_log |-> {},
     projects |-> {}, worklog |-> {}, users |-> {},
     seq |-> [scenarios |-> 0, scenario_shares |-> 0, audit_log |-> 0,
              projects |-> 0, worklog |-> 0, users |-> 0],
     now |-> 0]

\* datetime.now(): every reading of the clock is later than the one before.
Tick(d) == [d EXCEPT !.now = @ + 1]

log_audit(d, entity_type, entity_id, action, old_value, new_value, timestamp) ==
    [d EXCEPT
        !.audit_log = @ \cup
            {[id |-> d.seq.audit_log + 1, entity_type |-> entity_type,
              entity_id |-> entity_id, action |-> action,
              old_value |-> old_value, new_value |-> new_value,
              created_at |-> timestamp]},
        !.seq.audit_log = @ + 1]

\* INSERT INTO scenario_shares, one row per item of the dict, in its order.
InsertShares(d, scenario_id, shares) ==
    LET keys == DictKeys(shares)
    IN  [d EXCEPT
            !.scenario_shares = @ \cup
                {[id |-> d.seq.scenario_shares + i, scenario_id |-> scenario_id,
                  user_name |-> keys[i],
                  share_percentage |-> ToReal(shares[keys[i]])] :
                    i \in 1..Len(keys)},
            !.seq.scenario_shares = @ + Len(keys)]

InsertScenario(d, name, description, is_default, ts) ==
    [d EXCEPT
        !.scenarios = @ \cup
            {[id |-> d.seq.scenarios + 1, name |-> name,
              description |-> description, is_default |-> is_default,
              created_at |-> ts, updated_at |-> ts]},
        !.seq.scenarios = @ + 1]

\* f"Zmigrowany scenariusz: {scenario_name}"
MigratedDescription(scenario_name) ==
    CASE scenario_name = "Scenariusz 1" -> "Zmigrowany scenariusz: Scenariusz 1"
      [] scenario_name = "Scenariusz 2" -> "Zmigrowany scenariusz: Scenariusz 2"
      [] OTHER -> "Zmigrowany scenariusz: Scenariusz 3"

RECURSIVE MigrateFrom(_, _, _)
MigrateFrom(d, idx, ts) ==
    IF idx > Len(ScenarioOrder) THEN d
    ELSE LET scenario_name == ScenarioOrder[idx]
             shares == SCENARIOS[scenario_name]
             d1 == InsertScenario(d, scenario_name,
                       MigratedDescription(scenario_name),
                       IF idx = 1 THEN 1 ELSE 0, ts)
             scenario_id == d1.seq.scenarios
             d2 == InsertShares(d1, scenario_id, shares)
             d3 == log_audit(d2, "scenario", scenario_id, "migrated",
                             Null, json_dumps(shares), ts)
         IN  MigrateFrom(d3, idx + 1, ts)

\* UNIQUE(scenario_id, user_name) refuses an INSERT of the migration: a share
\* row of a built-in partner is already stored under an id the migration is
\* about to give to a scenario.
MigrationRefused(d) ==
    \E idx \in 1..Len(ScenarioOrder) : \E r \in d.scenario_shares :
        /\ r.scenario_id = d.seq.scenarios + idx
        /\ r.user_name \in DOMAIN SCENARIOS[ScenarioOrder[idx]]

\* Mutant: the built-in scenarios are migrated on the first start only.
migrate_hardcoded_scenarios_FirstStartOnly(d) ==
    IF d.seq.scenarios = 0
    THEN LET t == Tick(d) IN MigrateFrom(t, 1, t.now)
    ELSE d

\* The IntegrityError leaves the function before conn.commit(): the rows
\* inserted so far are rolled back, the clock has been read.
migrate_hardcoded_scenarios(d) ==
    IF Cardinality(d.scenarios) = 0
    THEN LET t == Tick(d)
         IN  IF MigrationRefused(d) THEN t ELSE MigrateFrom(t, 1, t.now)
    ELSE d

init_db(d) ==
    [db |-> migrate_hardcoded_scenarios(d),
     ret |-> IF Cardinality(d.scenarios) = 0 /\ MigrationRefused(d)
             THEN "IntegrityError" ELSE None]

-----------------------------------------------------------------------------
(* Projects *)

create_project(d, name, proj_date, scenario, value, planned_days) ==
    LET t == Tick(d)
        project_id == t.seq.projects + 1
    IN  [db |-> [t EXCEPT
                    !.projects = @ \cup
                        {[id |-> project_id, name |-> name, date |-> proj_date,
                          scenario |-> scenario, value |-> ToReal(value),
                          planned_days |-> planned_days, created_at |-> t.now]},
                    !.seq.projects = project_id],
         ret |-> project_id]

\* Mutant: the project row is deleted, its attendance entries stay.
delete_project_KeepsWorklog(d, project_id) ==
    [db |-> [d EXCEPT !.projects = {p \in @ : p.id # project_id}],
     ret |-> None]

delete_project(d, project_id) ==
    [db |-> [d EXCEPT
                !.worklog = {w \in @ : w.project_id # project_id},
                !.projects = {p \in @ : p.id # project_id}],
     ret |-> None]

\* cursor.fetchone(): the rows found, none or one for a key the table keeps unique.
get_project_by_id(d, project_id) == {p \in d.projects : p.id = project_id}

-----------------------------------------------------------------------------
(* Partners *)

\* sqlite3.IntegrityError: the name is NULL or the name of a stored user.
add_user(d, name, share_percentage) ==
    LET t == Tick(d)
        id == t.seq.users + 1
        IntegrityError == name = None \/ \E u \in t.users : u.name = name
    IN  IF IntegrityError THEN [db |-> t, ret |-> FALSE]
        ELSE [db |-> [t EXCEPT
                        !.users = @ \cup
                            {[id |-> id, name |-> name,
                              share_percentage |-> ToReal(share_percentage),
                              created_at |-> t.now]},
                        !.seq.users = id],
              ret |-> TRUE]

delete_user(d, name) ==
    [db |-> [d EXCEPT !.users = {u \in @ : u.name # name}], ret |-> None]

-----------------------------------------------------------------------------
(* Scenario store *)

\* Mutant: the other scenarios keep their flag.
ClearDefaults_Skipped(d) == d

\* UPDATE scenarios SET is_default = 0
ClearDefaults(d) ==
    [d EXCEPT !.scenarios = {[s EXCEPT !.is_default = 0] : s \in @}]

\* Mutant: the name column has no UNIQUE constraint.
create_scenario_NoUnique(d, name, description, is_default) ==
    LET t == Tick(d)
        d1 == IF is_default # 0 THEN ClearDefaults(t) ELSE t
        d2 == InsertScenario(d1, name, description, is_default, t.now)
        scenario_id == d2.seq.scenarios
        d3 == log_audit(d2, "scenario", scenario_id, "created", Null,
                        json_dumps([name |-> name, description |-> description]),
                        t.now)
    IN  [db |-> d3, ret |-> scenario_id]

create_scenario(d, name, description, is_default) ==
    LET t == Tick(d)
        d1 == IF is_default # 0 THEN ClearDefaults(t) ELSE t
        IntegrityError == name = None \/ \E s \in d1.scenarios : s.name = name
        d2 == InsertScenario(d1, name, description, is_default, t.now)
        scenario_id == d2.seq.scenarios
        d3 == log_audit(d2, "scenario", scenario_id, "created", Null,
                        json_dumps([name |-> name, description |-> description]),
                        t.now)
    IN  IF IntegrityError THEN [db |-> t, ret |-> -1]
        ELSE [db |-> d3, ret |-> scenario_id]

\* Mutant: the refused update keeps the flags it has already cleared.
update_scenario_NoRollback(d, scenario_id, name, description, is_default) ==
    LET old_data == {s \in d.scenarios : s.id = scenario_id}
        t == Tick(d)
        d1 == IF is_default # 0 THEN ClearDefaults(t) ELSE t
        IntegrityError ==
            \E s \in d1.scenarios : s.id = scenario_id /\
                (name = None \/ \E o \in d1.scenarios : o.id # s.id /\ o.name = name)
        d2 == [d1 EXCEPT !.scenarios =
                {IF s.id = scenario_id
                 THEN [s EXCEPT !.name = name, !.description = description,
                                !.is_default = is_default, !.updated_at = t.now]
                 ELSE s : s \in @}]
        d3 == IF old_data # {}
              THEN LET o == CHOOSE s \in old_data : TRUE
                   IN  log_audit(d2, "scenario", scenario_id, "updated",
                           json_dumps([name |-> o.name, description |-> o.description,
                                       is_default |-> o.is_default]),
                           json_dumps([name |-> name, description |-> description,
                                       is_default |-> is_default]),
                           t.now)
              ELSE d2
    IN  IF IntegrityError THEN [db |-> d1, ret |-> FALSE]
        ELSE [db |-> d3, ret |-> TRUE]

update_scenario(d, scenario_id, name, description, is_default) ==
    LET old_data == {s \in d.scenarios : s.id = scenario_id}
        t == Tick(d)
        d1 == IF is_default # 0 THEN ClearDefaults(t) ELSE t
        IntegrityError ==
            \E s \in d1.scenarios : s.id = scenario_id /\
                (name = None \/ \E o \in d1.scenarios : o.id # s.id /\ o.name = name)
        d2 == [d1 EXCEPT !.scenarios =
                {IF s.id = scenario_id
                 THEN [s EXCEPT !.name = name, !.description = description,
                                !.is_default = is_default, !.updated_at = t.now]
                 ELSE s : s \in @}]
        d3 == IF old_data # {}
              THEN LET o == CHOOSE s \in old_data : TRUE
                   IN  log_audit(d2, "scenario", scenario_id, "updated",
                           json_dumps([name |-> o.name, description |-> o.description,
                                       is_default |-> o.is_default]),
                           json_dumps([name |-> name, description |-> description,
                                       is_default |-> is_default]),
                           t.now)
              ELSE d2
    IN  IF IntegrityError THEN [db |-> t, ret |-> FALSE]
        ELSE [db |-> d3, ret |-> TRUE]

\* Mutant: the audit entries of the deleted scenario go with it.
delete_scenario_PurgesAudit(d, scenario_id) ==
    LET scenario == {s \in d.scenarios : s.id = scenario_id}
        scenario_name == (CHOOSE s \in scenario : TRUE).name
        count == Cardinality({p \in d.projects : p.scenario = scenario_name})
        old_data == CHOOSE s \in scenario : TRUE
        d1 == [d EXCEPT
                !.scenario_shares = {r \in @ : r.scenario_id # scenario_id},
                !.scenarios = {s \in @ : s.id # scenario_id},
                !.audit_log = {a \in @ : a.entity_id # scenario_id}]
        t == Tick(d1)
        d2 == log_audit(t, "scenario", scenario_id, "deleted",
                        json_dumps([name |-> old_data.name,
                                    description |-> old_data.description]),
                        Null, t.now)
    IN  IF scenario = {}
        THEN [db |-> d, ret |-> <<FALSE, "Scenariusz nie istnieje", 0>>]
        ELSE IF count > 0
        THEN [db |-> d,
              ret |-> <<FALSE, "Nie mozna usunac scenariusza uzywanego w projektach",
                        count>>]
        ELSE [db |-> d2, ret |-> <<TRUE, "Scenariusz usuniety pomyslnie", 0>>]

\* Mutant: the check of the projects table is left out.
delete_scenario_NoUseCheck(d, scenario_id) ==
    LET scenario == {s \in d.scenarios : s.id = scenario_id}
        old_data == CHOOSE s \in scenario : TRUE
        d1 == [d EXCEPT
                !.scenario_shares = {r \in @ : r.scenario_id # scenario_id},
                !.scenarios = {s \in @ : s.id # scenario_id}]
        t == Tick(d1)
        d2 == log_audit(t, "scenario", scenario_id, "deleted",
                        json_dumps([name |-> old_data.name,
                                    description |-> old_data.description]),
                        Null, t.now)
    IN  IF scenario = {}
        THEN [db |-> d, ret |-> <<FALSE, "Scenariusz nie istnieje", 0>>]
        ELSE [db |-> d2, ret |-> <<TRUE, "Scenariusz usuniety pomyslnie", 0>>]

\* Mutant: the share rows of the deleted scenario stay.
delete_scenario_KeepsShares(d, scenario_id) ==
    LET scenario == {s \in d.scenarios : s.id = scenario_id}
        scenario_name == (CHOOSE s \in scenario : TRUE).name
        count == Cardinality({p \in d.projects : p.scenario = scenario_name})
        old_data == CHOOSE s \in scenario : TRUE
        d1 == [d EXCEPT !.scenarios = {s \in @ : s.id # scenario_id}]
        t == Tick(d1)
        d2 == log_audit(t, "scenario", scenario_id, "deleted",
                        json_dumps([name |-> old_data.name,
                                    description |-> old_data.description]),
                        Null, t.now)
    IN  IF scenario = {}
        THEN [db |-> d, ret |-> <<FALSE, "Scenariusz nie istnieje", 0>>]
        ELSE IF count > 0
        THEN [db |-> d,
              ret |-> <<FALSE, "Nie mozna usunac scenariusza uzywanego w projektach",
                        count>>]
        ELSE [db |-> d2, ret |-> <<TRUE, "Scenariusz usuniety pomyslnie", 0>>]

delete_scenario(d, scenario_id) ==
    LET scenario == {s \in d.scenarios : s.id = scenario_id}
        scenario_name == (CHOOSE s \in scenario : TRUE).name
        count == Cardinality({p \in d.projects : p.scenario = scenario_name})
        old_data == CHOOSE s \in scenario : TRUE
        d1 == [d EXCEPT
                !.scenario_shares = {r \in @ : r.scenario_id # scenario_id},
                !.scenarios = {s \in @ : s.id # scenario_id}]
        t == Tick(d1)
        d2 == log_audit(t, "scenario", scenario_id, "deleted",
                        json_dumps([name |-> old_data.name,
                                    description |-> old_data.description]),
                        Null, t.now)
    IN  IF scenario = {}
        THEN [db |-> d, ret |-> <<FALSE, "Scenariusz nie istnieje", 0>>]
        ELSE IF count > 0
        THEN [db |-> d,
              ret |-> <<FALSE, "Nie mozna usunac scenariusza uzywanego w projektach",
                        count>>]
        ELSE [db |-> d2, ret |-> <<TRUE, "Scenariusz usuniety pomyslnie", 0>>]

\* Mutant: the lookup by name finds nothing.
get_scenario_by_name_Missing(d, name) == {}

get_scenario_by_name(d, name) == {s \in d.scenarios : s.name = name}

\* {row[0]: row[1] for row in cursor.fetchall()}
get_scenario_shares(d, scenario_id) ==
    LET rows == {r \in d.scenario_shares : r.scenario_id = scenario_id}
    IN  [u \in {r.user_name : r \in rows} |->
            (CHOOSE r \in rows : r.user_name = u).share_percentage]

\* The names the runs use, in the order of SQLite's BINARY collation.
NameOrder == <<"Nowy", "Scenariusz 1", "Scenariusz 2", "Scenariusz 3">>

NameRank(name) == CHOOSE i \in 1..Len(NameOrder) : NameOrder[i] = name

\* ORDER BY is_default DESC, name ASC
RowBefore(a, b) ==
    \/ a.is_default > b.is_default
    \/ a.is_default = b.is_default /\ NameRank(a.name) < NameRank(b.name)

RECURSIVE OrderedRows(_)
OrderedRows(rows) ==
    IF rows = {} THEN <<>>
    ELSE LET first == CHOOSE x \in rows : \A y \in rows \ {x} : RowBefore(x, y)
         IN  <<first>> \o OrderedRows(rows \ {first})

get_all_scenarios(d) == OrderedRows(d.scenarios)

\* Mutant: a share map that does not sum to 100 is not saved.
set_scenario_shares_ValidOnly(d, scenario_id, shares) ==
    LET total == NumSum(shares, DOMAIN shares)
        old_shares == get_scenario_shares(d, scenario_id)
        d1 == [d EXCEPT !.scenario_shares = {r \in @ : r.scenario_id # scenario_id}]
        d2 == InsertShares(d1, scenario_id, shares)
        t == Tick(d2)
        d4 == log_audit(t, "scenario_shares", scenario_id, "updated",
                        json_dumps(old_shares), json_dumps(shares), t.now)
    IN  IF NumEq(total, PyInt(100)) THEN [db |-> d4, ret |-> None]
        ELSE [db |-> d, ret |-> None]

\* Mutant: the rows of partners that are not in the new map stay.
set_scenario_shares_Merges(d, scenario_id, shares) ==
    LET old_shares == get_scenario_shares(d, scenario_id)
        d1 == [d EXCEPT !.scenario_shares =
                {r \in @ : ~(r.scenario_id = scenario_id
                             /\ r.user_name \in DOMAIN shares)}]
        d2 == InsertShares(d1, scenario_id, shares)
        t == Tick(d2)
        d3 == [t EXCEPT !.scenarios =
                {IF s.id = scenario_id THEN [s EXCEPT !.updated_at = t.now] ELSE s :
                    s \in @}]
        d4 == log_audit(d3, "scenario_shares", scenario_id, "updated",
                        json_dumps(old_shares), json_dumps(shares), t.now)
    IN  [db |-> d4, ret |-> None]

set_scenario_shares(d, scenario_id, shares) ==
    LET old_shares == get_scenario_shares(d, scenario_id)
        d1 == [d EXCEPT !.scenario_shares = {r \in @ : r.scenario_id # scenario_id}]
        d2 == InsertShares(d1, scenario_id, shares)
        t == Tick(d2)
        d3 == [t EXCEPT !.scenarios =
                {IF s.id = scenario_id THEN [s EXCEPT !.updated_at = t.now] ELSE s :
                    s \in @}]
        d4 == log_audit(d3, "scenario_shares", scenario_id, "updated",
                        json_dumps(old_shares), json_dumps(shares), t.now)
    IN  [db |-> d4, ret |-> None]

\* f"{diff:.2f}": diff in hundredths, rounded to the nearest, ties to even.
Fmt2(x) ==
    LET n == x[1] * 100
        q == n \div x[2]
        r == n % x[2]
    IN  IF 2 * r > x[2] \/ (2 * r = x[2] /\ q % 2 = 1) THEN q + 1 ELSE q

\* Mutant: the tolerance is 0.1 instead of 0.01.
validate_shares_WideTolerance(shares) ==
    LET total == NumSum(shares, DOMAIN shares)
    IN  IF NumLt(NumAbs(NumSub(total, PyFloat(100, 1))), PyFloat(1, 10))
        THEN <<TRUE, <<"Suma udzialow wynosi 100%", 0>>, total>>
        ELSE IF NumLt(total, PyFloat(100, 1))
        THEN <<FALSE, <<"Suma udzialow jest za mala o",
                        Fmt2(NumSub(PyFloat(100, 1), total))>>, total>>
        ELSE <<FALSE, <<"Suma udzialow jest za duza o",
                        Fmt2(NumSub(total, PyFloat(100, 1)))>>, total>>

validate_shares(shares) ==
    LET total == NumSum(shares, DOMAIN shares)
    IN  IF NumLt(NumAbs(NumSub(total, PyFloat(100, 1))), PyFloat(1, 100))
        THEN <<TRUE, <<"Suma udzialow wynosi 100%", 0>>, total>>
        ELSE IF NumLt(total, PyFloat(100, 1))
        THEN <<FALSE, <<"Suma udzialow jest za mala o",
                        Fmt2(NumSub(PyFloat(100, 1), total))>>, total>>
        ELSE <<FALSE, <<"Suma udzialow jest za duza o",
                        Fmt2(NumSub(total, PyFloat(100, 1)))>>, total>>

\* A parsed entry of the imported JSON array.  json is the JSON type of the
\* entry; name is None when the member is missing or null.
Entry(name, description, is_default, shares) ==
    [json |-> "object", name |-> name, description |-> description,
     is_default |-> is_default, shares |-> shares]

\* The return value of the except branch: the message carries no count.
ImportError == <<FALSE, -1>>

\* The loop of import_scenarios_json over scenarios_data[i..].  Every call
\* made for an entry commits on its own; the AttributeError raised by .get on
\* an entry that is no object leaves the loop for the except branch of the
\* function.  The "shares" member of an object entry is an object of numbers.
RECURSIVE ImportFrom(_, _, _, _)
ImportFrom(d, scenarios_data, i, imported_count) ==
    IF i > Len(scenarios_data) THEN [db |-> d, ret |-> <<TRUE, imported_count>>]
    ELSE LET scenario_data == scenarios_data[i]
             name == scenario_data.name
             description == scenario_data.description
             is_default == IF scenario_data.is_default THEN 1 ELSE 0
             shares == scenario_data.shares
             existing == get_scenario_by_name(d, name)
             upd == update_scenario(d, (CHOOSE s \in existing : TRUE).id,
                                    name, description, is_default)
             cre == create_scenario(d, name, description, is_default)
         IN  IF scenario_data.json # "object"
             THEN [db |-> d, ret |-> ImportError]
             ELSE IF existing # {}
             THEN ImportFrom(
                    set_scenario_shares(upd.db, (CHOOSE s \in existing : TRUE).id,
                                        shares).db,
                    scenarios_data, i + 1, imported_count + 1)
             ELSE IF cre.ret = -1
             THEN ImportFrom(cre.db, scenarios_data, i + 1, imported_count)
             ELSE ImportFrom(set_scenario_shares(cre.db, cre.ret, shares).db,
                             scenarios_data, i + 1, imported_count + 1)

import_scenarios_json(d, scenarios_data) == ImportFrom(d, scenarios_data, 1, 0)

\* Mutant: the default flag is not exported.
export_scenarios_json_NoDefault(d) ==
    LET rows == get_all_scenarios(d)
    IN  [i \in 1..Len(rows) |->
            [json |-> "object", name |-> rows[i].name,
             description |-> rows[i].description, is_default |-> FALSE,
             shares |-> get_scenario_shares(d, rows[i].id)]]

\* The JSON array written: one object per scenario, is_default as a JSON
\* boolean (bool(is_default)), the shares as an object of numbers.
export_scenarios_json(d) ==
    LET rows == get_all_scenarios(d)
    IN  [i \in 1..Len(rows) |->
            [json |-> "object", name |-> rows[i].name,
             description |-> rows[i].description,
             is_default |-> rows[i].is_default # 0,
             shares |-> get_scenario_shares(d, rows[i].id)]]

-----------------------------------------------------------------------------
(* Audit trail query *)

\* The rows of a result set in the orders ORDER BY created_at DESC allows:
\* rows of one created_at come in any order.
RECURSIVE OrderByCreatedAtDesc(_)
OrderByCreatedAtDesc(rows) ==
    IF rows = {} THEN {<<>>}
    ELSE UNION {{<<r>> \o rest : rest \in OrderByCreatedAtDesc(rows \ {r})} :
                    r \in {x \in rows : \A y \in rows : y.created_at <= x.created_at}}

\* LIMIT ?: the first rows of the result; a negative limit is no limit.
Limit(rows, limit) ==
    IF limit < 0 \/ limit > Len(rows) THEN rows ELSE SubSeq(rows, 1, limit)

\* Mutant: ORDER BY created_at ASC.
get_audit_log_OldestFirst(d, entity_type, entity_id, limit) ==
    LET Reverse(s) == [i \in 1..Len(s) |-> s[Len(s) + 1 - i]]
        rows == {a \in d.audit_log :
                    /\ (entity_type \notin {None, ""}) => a.entity_type = entity_type
                    /\ \A id \in entity_id : a.entity_id = id}
    IN  {Limit(Reverse(logs), limit) : logs \in OrderByCreatedAtDesc(rows)}

\* `if entity_type:` holds for a string that is not empty, `if entity_id is
\* not None:` for every id: entity_id is the set of the id given, empty for
\* None.  The values are the result sets the query can give.
get_audit_log(d, entity_type, entity_id, limit) ==
    LET rows == {a \in d.audit_log :
                    /\ (entity_type \notin {None, ""}) => a.entity_type = entity_type
                    /\ \A id \in entity_id : a.entity_id = id}
    IN  {Limit(logs, limit) : logs \in OrderByCreatedAtDesc(rows)}

-----------------------------------------------------------------------------
(* Attendance ledger *)

\* Mutant: a plain INSERT, the row of the same key stays.
log_attendance_NoReplace(d, project_id, log_date, partner, present) ==
    LET t == Tick(d)
        id == t.seq.worklog + 1
    IN  [db |-> [t EXCEPT
                    !.worklog = @ \cup {[id |-> id, project_id |-> project_id,
                               date |-> log_date, partner |-> partner,
                               present |-> present, logged_at |-> t.now]},
                    !.seq.worklog = id],
         ret |-> None]

\* Mutant: the new row replaces every row of its project and date.
log_attendance_ReplacesDay(d, project_id, log_date, partner, present) ==
    LET t == Tick(d)
        id == t.seq.worklog + 1
    IN  [db |-> [t EXCEPT
                    !.worklog =
                        {w \in @ : ~(w.project_id = project_id /\ w.date = log_date)}
                        \cup {[id |-> id, project_id |-> project_id,
                               date |-> log_date, partner |-> partner,
                               present |-> present, logged_at |-> t.now]},
                    !.seq.worklog = id],
         ret |-> None]

\* INSERT OR REPLACE: the rows in conflict on UNIQUE(project_id, date, partner)
\* are deleted and the new row is inserted under a fresh id.
log_attendance(d, project_id, log_date, partner, present) ==
    LET t == Tick(d)
        id == t.seq.worklog + 1
    IN  [db |-> [t EXCEPT
                    !.worklog =
                        {w \in @ : ~(w.project_id = project_id /\ w.date = log_date
                                     /\ w.partner = partner)}
                        \cup {[id |-> id, project_id |-> project_id,
                               date |-> log_date, partner |-> partner,
                               present |-> present, logged_at |-> t.now]},
                    !.seq.worklog = id],
         ret |-> None]

\* Mutant: the rows are not filtered by project.
get_worked_days_by_partner_AnyProject(d, project_id, partners) ==
    [partner \in partners |->
        Cardinality({w \in d.worklog : w.partner = partner /\ w.present = 1})]

get_worked_days_by_partner(d, project_id, partners) ==
    [partner \in partners |->
        Cardinality({w \in d.worklog : w.project_id = project_id
                        /\ w.partner = partner /\ w.present = 1})]

-----------------------------------------------------------------------------
(* Attendance ledger listing *)

\* The partner names the runs use, in the order of SQLite's BINARY collation.
PartnerOrder == <<"W1", "W2", "W3", "W4">>

PartnerRank(partner) == CHOOSE i \in 1..Len(PartnerOrder) : PartnerOrder[i] = partner

\* Mutant: ORDER BY date DESC alone, the rows of one date in id order.
WorklogBefore_NoTiebreak(a, b) ==
    \/ a.date > b.date
    \/ a.date = b.date /\ a.id < b.id

\* ORDER BY date DESC, partner
WorklogBefore(a, b) ==
    \/ a.date > b.date
    \/ a.date = b.date /\ PartnerRank(a.partner) < PartnerRank(b.partner)

RECURSIVE OrderedWorklog(_)
OrderedWorklog(rows) ==
    IF rows = {} THEN <<>>
    ELSE LET first == CHOOSE x \in rows : \A y \in rows \ {x} : WorklogBefore(x, y)
         IN  <<first>> \o OrderedWorklog(rows \ {first})

get_worklog_for_project(d, project_id) ==
    OrderedWorklog({w \in d.worklog : w.project_id = project_id})

-----------------------------------------------------------------------------
(* Payout engine *)

\* Mutant: the report for a missing project raises the over-plan flag.
NotFoundReport_OverPlan ==
    [error |-> "Nie znaleziono projektu", project_name |-> "",
     total_value |-> PyInt(0), firm_cut |-> PyInt(0), distributable |-> PyInt(0),
     planned_days |-> 0, total_worked_days |-> 0,
     payouts |-> [p \in {} |-> 0],
     total_paid |-> PyInt(0), remaining |-> PyInt(0), over_plan |-> TRUE]

NotFoundReport ==
    [error |-> "Nie znaleziono projektu", project_name |-> "",
     total_value |-> PyInt(0), firm_cut |-> PyInt(0), distributable |-> PyInt(0),
     planned_days |-> 0, total_worked_days |-> 0,
     payouts |-> [p \in {} |-> 0],
     total_paid |-> PyInt(0), remaining |-> PyInt(0), over_plan |-> FALSE]

\* Mutant: a persisted scenario without shares falls back to the table.
ResolveShares_FallbackOnEmpty(d, scenario) ==
    LET scenario_data == get_scenario_by_name(d, scenario)
        stored == get_scenario_shares(d, (CHOOSE s \in scenario_data : TRUE).id)
    IN  IF scenario_data # {} /\ DOMAIN stored # {} THEN stored
        ELSE IF scenario \in DOMAIN SCENARIOS THEN SCENARIOS[scenario]
        ELSE [p \in {} |-> PyInt(0)]

\* Mutant: a name found nowhere takes the first entry of the hardcoded table.
ResolveShares_FirstBuiltIn(d, scenario) ==
    LET scenario_data == get_scenario_by_name(d, scenario)
    IN  IF scenario_data # {}
        THEN get_scenario_shares(d, (CHOOSE s \in scenario_data : TRUE).id)
        ELSE IF scenario \in DOMAIN SCENARIOS THEN SCENARIOS[scenario]
        ELSE SCENARIOS[ScenarioOrder[1]]

\* partner_shares of calculate_payouts: the persisted scenario's shares, or the
\* hardcoded table when no scenario of that name is in the database.
ResolveShares(d, scenario) ==
    LET scenario_data == get_scenario_by_name(d, scenario)
    IN  IF scenario_data # {}
        THEN get_scenario_shares(d, (CHOOSE s \in scenario_data : TRUE).id)
        ELSE IF scenario \in DOMAIN SCENARIOS THEN SCENARIOS[scenario]
        ELSE [p \in {} |-> PyInt(0)]

\* Mutant: the days paid are capped at the planned days.
PartnerPayout_Capped(share_pct_value, distributable, planned_days, days_worked) ==
    LET share_pct == NumDiv(share_pct_value, PyInt(100))
        per_day_value == NumDiv(distributable, PyInt(planned_days))
        partner_per_day == NumMul(share_pct, per_day_value)
        days == IF days_worked > planned_days THEN planned_days ELSE days_worked
    IN  IF planned_days > 0 THEN NumMul(partner_per_day, PyInt(days))
        ELSE PyInt(0)

\* Mutant: the division is guarded by dividing by at least one day.
PartnerPayout_MinOneDay(share_pct_value, distributable, planned_days, days_worked) ==
    LET share_pct == NumDiv(share_pct_value, PyInt(100))
        days == IF planned_days > 0 THEN planned_days ELSE 1
        per_day_value == NumDiv(distributable, PyInt(days))
        partner_per_day == NumMul(share_pct, per_day_value)
    IN  NumMul(partner_per_day, PyInt(days_worked))

\* One partner's payout: (share / 100) * (distributable / planned_days) * days.
PartnerPayout(share_pct_value, distributable, planned_days, days_worked) ==
    LET share_pct == NumDiv(share_pct_value, PyInt(100))
        per_day_value == NumDiv(distributable, PyInt(planned_days))
        partner_per_day == NumMul(share_pct, per_day_value)
    IN  IF planned_days > 0 THEN NumMul(partner_per_day, PyInt(days_worked))
        ELSE PyInt(0)

FirmCut(total_value) ==
    NumMul(total_value, NumDiv(PyInt(FIRM_PERCENTAGE), PyInt(100)))

\* Mutant: an overrun is reported as nothing remaining.
Remaining_Floored(distributable, total_paid) ==
    IF NumLt(distributable, total_paid) THEN PyInt(0)
    ELSE NumSub(distributable, total_paid)

Remaining(distributable, total_paid) == NumSub(distributable, total_paid)

\* Mutant: working exactly the planned days already raises the flag.
OverPlan_Inclusive(total_worked, planned_days) == total_worked >= planned_days

OverPlan(total_worked, planned_days) == total_worked > planned_days

RECURSIVE IntSum(_, _)
IntSum(m, S) ==
    IF S = {} THEN 0
    ELSE LET k == CHOOSE x \in S : TRUE IN m[k] + IntSum(m, S \ {k})

\* partners: the set of the names in the list passed (both dicts of the
\* function are keyed by partner, so a repeated name counts once).
\* Mutant: every partner of the share map is paid, requested or not.
calculate_payouts_AllShareholders(d, project_id, partners) ==
    LET found == get_project_by_id(d, project_id)
        project == CHOOSE p \in found : TRUE
        total_value == project.value
        planned_days == project.planned_days
        partner_shares == ResolveShares(d, project.scenario)
        worked_days == get_worked_days_by_partner(d, project_id,
                            partners \cup DOMAIN partner_shares)
        firm_cut == FirmCut(total_value)
        distributable == NumSub(total_value, firm_cut)
        paid == {p \in DOMAIN partner_shares : NumLt(PyInt(0), partner_shares[p])}
        payouts == [p \in paid |->
                      [share_pct |-> partner_shares[p],
                       worked_days |-> worked_days[p],
                       payout |-> PartnerPayout(partner_shares[p], distributable,
                                                planned_days, worked_days[p])]]
        total_paid == NumSum([p \in paid |-> payouts[p].payout], paid)
        total_worked == IntSum(worked_days, partners)
    IN  IF found = {} THEN NotFoundReport
        ELSE [error |-> "", project_name |-> project.name,
              total_value |-> total_value, firm_cut |-> firm_cut,
              distributable |-> distributable, planned_days |-> planned_days,
              total_worked_days |-> total_worked, payouts |-> payouts,
              total_paid |-> total_paid,
              remaining |-> Remaining(distributable, total_paid),
              over_plan |-> OverPlan(total_worked, planned_days)]

calculate_payouts(d, project_id, partners) ==
    LET found == get_project_by_id(d, project_id)
        project == CHOOSE p \in found : TRUE
        total_value == project.value
        planned_days == project.planned_days
        worked_days == get_worked_days_by_partner(d, project_id, partners)
        partner_shares == ResolveShares(d, project.scenario)
        firm_cut == FirmCut(total_value)
        distributable == NumSub(total_value, firm_cut)
        paid == {p \in partners :
                    p \in DOMAIN partner_shares
                    /\ NumLt(PyInt(0), partner_shares[p])}
        payouts == [p \in paid |->
                      [share_pct |-> partner_shares[p],
                       worked_days |-> worked_days[p],
                       payout |-> PartnerPayout(partner_shares[p], distributable,
                                                planned_days, worked_days[p])]]
        total_paid == NumSum([p \in paid |-> payouts[p].payout], paid)
        total_worked == IntSum(worked_days, partners)
    IN  IF found = {} THEN NotFoundReport
        ELSE [error |-> "", project_name |-> project.name,
              total_value |-> total_value, firm_cut |-> firm_cut,
              distributable |-> distributable, planned_days |-> planned_days,
              total_worked_days |-> total_worked, payouts |-> payouts,
              total_paid |-> total_paid,
              remaining |-> Remaining(distributable, total_paid),
              over_plan |-> OverPlan(total_worked, planned_days)]

-----------------------------------------------------------------------------
(* Binary64: the values Python floats take.  A natural number of any size   *)
(* is a sequence of limbs, least significant first; a float is              *)
(* <<sign, mantissa, exponent>> with the value (-1)^sign x mantissa x       *)
(* 2^exponent and a mantissa of exactly 53 bits (of no limb for 0.0).       *)
(* +, -, x and / round the exact result to the nearest float, ties to the   *)
(* even mantissa; the amounts of the runs stay far from overflow and from   *)
(* subnormal numbers, which are not represented.                            *)
(* An operator that uses an operand more than once first fixes its value   *)
(* (a \in {x}), so that each operand is computed once.                      *)

LimbBits == 15

LimbBase == 2 ^ LimbBits

MantissaBits == 53

Limb(a, i) == IF i <= Len(a) THEN a[i] ELSE 0

RECURSIVE BigTrim(_)
BigTrim(x) ==
    CHOOSE r \in {IF a = <<>> THEN a
                  ELSE IF a[Len(a)] = 0 THEN BigTrim(SubSeq(a, 1, Len(a) - 1))
                  ELSE a : a \in {x}} : TRUE

RECURSIVE BigFromInt(_)
BigFromInt(n) ==
    IF n = 0 THEN <<>> ELSE <<n % LimbBase>> \o BigFromInt(n \div LimbBase)

RECURSIVE BigAddFrom(_, _, _, _)
BigAddFrom(a, b, i, carry) ==
    IF i > Len(a) /\ i > Len(b)
    THEN IF carry = 0 THEN <<>> ELSE <<carry>>
    ELSE LET s == Limb(a, i) + Limb(b, i) + carry
         IN  <<s % LimbBase>> \o BigAddFrom(a, b, i + 1, s \div LimbBase)

BigAdd(x, y) ==
    CHOOSE r \in {BigAddFrom(a, b, 1, 0) : a \in {x}, b \in {y}} : TRUE

\* a - b for a >= b
RECURSIVE BigSubFrom(_, _, _, _)
BigSubFrom(a, b, i, borrow) ==
    IF i > Len(a) THEN <<>>
    ELSE LET s == Limb(a, i) - Limb(b, i) - borrow
         IN  IF s < 0 THEN <<s + LimbBase>> \o BigSubFrom(a, b, i + 1, 1)
             ELSE <<s>> \o BigSubFrom(a, b, i + 1, 0)

BigSub(x, y) ==
    CHOOSE r \in {BigTrim(BigSubFrom(a, b, 1, 0)) : a \in {x}, b \in {y}} : TRUE

RECURSIVE BigLtFrom(_, _, _)
BigLtFrom(a, b, i) ==
    IF i = 0 THEN FALSE
    ELSE IF a[i] # b[i] THEN a[i] < b[i] ELSE BigLtFrom(a, b, i - 1)

\* a < b, for trimmed a and b
BigLt(x, y) ==
    \E a \in {x}, b \in {y} :
        IF Len(a) # Len(b) THEN Len(a) < Len(b) ELSE BigLtFrom(a, b, Len(a))

\* a x k for a limb k
RECURSIVE BigMulLimbFrom(_, _, _, _)
BigMulLimbFrom(a, k, i, carry) ==
    IF i > Len(a) THEN IF carry = 0 THEN <<>> ELSE <<carry>>
    ELSE LET s == a[i] * k + carry
         IN  <<s % LimbBase>> \o BigMulLimbFrom(a, k, i + 1, s \div LimbBase)

BigMulLimb(x, limb) ==
    CHOOSE r \in {BigTrim(BigMulLimbFrom(a, k, 1, 0)) : a \in {x}, k \in {limb}} :
        TRUE

Zeros(n) == [i \in 1..n |-> 0]

RECURSIVE BigMulFrom(_, _, _)
BigMulFrom(a, b, j) ==
    IF j > Len(b) THEN <<>>
    ELSE BigAdd(IF b[j] = 0 THEN <<>> ELSE Zeros(j - 1) \o BigMulLimb(a, b[j]),
                BigMulFrom(a, b, j + 1))

BigMul(x, y) ==
    CHOOSE r \in {BigTrim(BigMulFrom(a, b, 1)) : a \in {x}, b \in {y}} : TRUE

\* a x 2^k
BigShl(x, bits) ==
    CHOOSE r \in {IF a = <<>> THEN a
                  ELSE Zeros(k \div LimbBits) \o BigMulLimb(a, 2 ^ (k % LimbBits))
                  : a \in {x}, k \in {bits}} : TRUE

\* The limb sequence of floor(a / d) for a limb d > 0, from limb i down.
RECURSIVE BigDivLimbFrom(_, _, _, _)
BigDivLimbFrom(a, d, i, rem) ==
    IF i = 0 THEN <<>>
    ELSE LET s == rem * LimbBase + a[i]
         IN  BigDivLimbFrom(a, d, i - 1, s % d) \o <<s \div d>>

\* floor(a / 2^k)
BigShr(x, bits) ==
    CHOOSE r \in
        {LET whole == k \div LimbBits
             rest == IF whole >= Len(a) THEN <<>> ELSE SubSeq(a, whole + 1, Len(a))
         IN  BigTrim(BigDivLimbFrom(rest, 2 ^ (k % LimbBits), Len(rest), 0))
         : a \in {x}, k \in {bits}} : TRUE

\* bit i of a, bit 0 the least significant
BigBit(a, i) == (Limb(a, i \div LimbBits + 1) \div 2 ^ (i % LimbBits)) % 2

RECURSIVE LimbLen(_)
LimbLen(n) == IF n = 0 THEN 0 ELSE 1 + LimbLen(n \div 2)

\* the number of bits of a trimmed a
BigBitLen(a) ==
    IF a = <<>> THEN 0 ELSE (Len(a) - 1) * LimbBits + LimbLen(a[Len(a)])

\* Long division, one limb of the quotient at a time, for a divisor b whose
\* top limb is at least LimbBase / 2: the quotient limb is at most the
\* quotient of the two top limbs of the remainder by the top limb of b, and
\* at most 2 less.
QuotLimb(x, y) ==
    CHOOSE q \in
        {LET n == Len(b)
             top == (Limb(r, n + 1) * LimbBase + Limb(r, n)) \div b[n]
             est == IF top > LimbBase - 1 THEN LimbBase - 1 ELSE top
         IN  IF ~BigLt(r, BigMulLimb(b, est)) THEN est
             ELSE IF ~BigLt(r, BigMulLimb(b, est - 1)) THEN est - 1
             ELSE est - 2
         : r \in {x}, b \in {y}} : TRUE

\* <<floor(a' / b), a' mod b>>, where a' is rem followed by the limbs j..1 of
\* a and quot holds the limbs of the quotient found so far.
RECURSIVE DivModLimbs(_, _, _, _, _)
DivModLimbs(a, b, j, x, y) ==
    CHOOSE qr \in
        {IF j = 0 THEN <<quot, rem>>
         ELSE LET r == BigTrim(<<a[j]>> \o rem)
                  q == QuotLimb(r, b)
              IN  DivModLimbs(a, b, j - 1, BigSub(r, BigMulLimb(b, q)),
                              <<q>> \o quot)
         : rem \in {x}, quot \in {y}} : TRUE

\* <<floor(a / b), a mod b>> for b > 0: both are scaled by the power of 2 that
\* fills the top limb of b.
BigDivMod(x, y) ==
    CHOOSE out \in
        {LET scale == LimbBits - LimbLen(b[Len(b)])
         IN  CHOOSE r \in
                 {<<BigTrim(qr[1]), BigShr(qr[2], scale)>>
                  : qr \in {DivModLimbs(BigShl(a, scale), BigShl(b, scale),
                                        Len(BigShl(a, scale)), <<>>, <<>>)}} : TRUE
         : a \in {x}, b \in {y}} : TRUE

F64Zero == <<0, <<>>, 0>>

\* The float nearest to (-1)^sign x (n + t) x 2^exp, where 0 < t < 1 when
\* sticky and t = 0 otherwise; ties go to the even mantissa.
F64Round(sign, x, exp, sticky) ==
    CHOOSE f \in
        {LET len == BigBitLen(n)
             k == len - MantissaBits
             q == BigShr(n, k)
             half == BigBit(n, k - 1) = 1
             below == sticky \/ BigShl(BigShr(n, k - 1), k - 1) # n
             up == half /\ (below \/ BigBit(q, 0) = 1)
             r == IF up THEN BigAdd(q, <<1>>) ELSE q
         IN  IF n = <<>> THEN F64Zero
             ELSE IF k <= 0 THEN <<sign, BigShl(n, -k), exp + k>>
             ELSE IF BigBitLen(r) > MantissaBits
                  THEN <<sign, BigShr(r, 1), exp + k + 1>>
             ELSE <<sign, r, exp + k>>
         : n \in {x}} : TRUE

\* float(n) of an int
F64FromInt(n) ==
    F64Round(IF n < 0 THEN 1 ELSE 0, BigFromInt(IF n < 0 THEN -n ELSE n), 0, FALSE)

F64Neg(x) ==
    CHOOSE f \in {IF a[2] = <<>> THEN a ELSE <<1 - a[1], a[2], a[3]>> : a \in {x}} :
        TRUE

F64Mul(x, y) ==
    CHOOSE f \in
        {IF a[2] = <<>> \/ b[2] = <<>> THEN F64Zero
         ELSE F64Round((a[1] + b[1]) % 2, BigMul(a[2], b[2]), a[3] + b[3], FALSE)
         : a \in {x}, b \in {y}} : TRUE

\* a / b for b # 0.0 (the program divides by 100 and by planned_days > 0): the
\* quotient is taken to 56 or 57 bits, the remainder decides below them.
F64Div(x, y) ==
    CHOOSE f \in
        {IF a[2] = <<>> \/ b[2] = <<>> THEN F64Zero
         ELSE CHOOSE g \in
                  {F64Round((a[1] + b[1]) % 2, qr[1],
                            a[3] - b[3] - (MantissaBits + 3), qr[2] # <<>>)
                   : qr \in {BigDivMod(BigShl(a[2], MantissaBits + 3), b[2])}} :
                  TRUE
         : a \in {x}, b \in {y}} : TRUE

F64Add(x, y) ==
    CHOOSE f \in
        {LET exp == IF a[3] < b[3] THEN a[3] ELSE b[3]
             m == BigShl(a[2], a[3] - exp)
             n == BigShl(b[2], b[3] - exp)
         IN  IF a[2] = <<>> THEN b
             ELSE IF b[2] = <<>> THEN a
             ELSE IF a[1] = b[1] THEN F64Round(a[1], BigAdd(m, n), exp, FALSE)
             ELSE IF BigLt(m, n) THEN F64Round(b[1], BigSub(n, m), exp, FALSE)
             ELSE F64Round(a[1], BigSub(m, n), exp, FALSE)
         : a \in {x}, b \in {y}} : TRUE

F64Sub(a, b) == F64Add(a, F64Neg(b))

F64IsNegative(x) == \E a \in {x} : a[2] # <<>> /\ a[1] = 1

\* a > 0
F64IsPositive(x) == \E a \in {x} : a[2] # <<>> /\ a[1] = 0

\* The float of a number of the model: an int converts exactly, the float of
\* a decimal n/d is the float nearest to it.
F64FromNum(x) == F64Div(F64FromInt(x[1]), F64FromInt(x[2]))

\* firm_cut = total_value * (FIRM_PERCENTAGE / 100)
F64FirmCut(total_value) ==
    F64Mul(total_value, F64Div(F64FromInt(FIRM_PERCENTAGE), F64FromInt(100)))

\* The payout of one partner, each operation of the loop body rounded.
F64PartnerPayout(share_pct_value, distributable, planned_days, days_worked) ==
    LET share_pct == F64Div(share_pct_value, F64FromInt(100))
        per_day_value == F64Div(distributable, F64FromInt(planned_days))
        partner_per_day == F64Mul(share_pct, per_day_value)
    IN  IF planned_days > 0 THEN F64Mul(partner_per_day, F64FromInt(days_worked))
        ELSE F64Zero

\* sum(...) of the payouts in the order of the partner list, from the int 0.
\* Up to two payouts every Python version adds to the same float.
RECURSIVE F64SumFrom(_, _, _)
F64SumFrom(m, keys, i) ==
    IF i = 0 THEN F64Zero ELSE F64Add(F64SumFrom(m, keys, i - 1), m[keys[i]])

F64Sum(m) == F64SumFrom(m, DictKeys(m), Len(DictKeys(m)))

\* The report of calculate_payouts with the floats the machine computes.
F64Report(d, project_id, partners) ==
    LET found == get_project_by_id(d, project_id)
        project == CHOOSE p \in found : TRUE
        total_value == F64FromNum(project.value)
        planned_days == project.planned_days
        worked_days == get_worked_days_by_partner(d, project_id, partners)
        partner_shares == ResolveShares(d, project.scenario)
        firm_cut == F64FirmCut(total_value)
        distributable == F64Sub(total_value, firm_cut)
        paid == {p \in partners :
                    p \in DOMAIN partner_shares
                    /\ F64IsPositive(F64FromNum(partner_shares[p]))}
        payouts == [p \in paid |->
                      [share_pct |-> F64FromNum(partner_shares[p]),
                       worked_days |-> worked_days[p],
                       payout |-> F64PartnerPayout(F64FromNum(partner_shares[p]),
                                                   distributable, planned_days,
                                                   worked_days[p])]]
        total_paid == F64Sum([p \in paid |-> payouts[p].payout])
        total_worked == IntSum(worked_days, partners)
    IN  IF found = {}
        THEN [error |-> "Nie znaleziono projektu", project_name |-> "",
              total_value |-> F64Zero, firm_cut |-> F64Zero,
              distributable |-> F64Zero, planned_days |-> 0,
              total_worked_days |-> 0, payouts |-> [p \in {} |-> 0],
              total_paid |-> F64Zero, remaining |-> F64Zero, over_plan |-> FALSE]
        ELSE [error |-> "", project_name |-> project.name,
              total_value |-> total_value, firm_cut |-> firm_cut,
              distributable |-> distributable, planned_days |-> planned_days,
              total_worked_days |-> total_worked, payouts |-> payouts,
              total_paid |-> total_paid,
              remaining |-> F64Sub(distributable, total_paid),
              over_plan |-> OverPlan(total_worked, planned_days)]

-----------------------------------------------------------------------------
(* Connections and transactions: the statements of a scenario call, one at  *)
(* a time.  A call in progress is a record: its name and arguments, the     *)
(* working copy of the database its connection sees (db), the row and the   *)
(* share map it read for the audit (old_data, old_shares) and the partners  *)
(* it has still to insert (keys).                                           *)

NoCall ==
    [op |-> "", args |-> <<>>, db |-> EmptyDB, old_data |-> {},
     old_shares |-> [p \in {} |-> PyInt(0)], keys |-> <<>>]

\* Mutant: every statement is committed as it is executed.
ConnWrite_Autocommit(committed, working) == working

\* Mutant: a statement on the scenarios table is committed as it is executed.
ConnWrite_ScenariosCommitted(committed, working) ==
    [committed EXCEPT !.scenarios = working.scenarios, !.now = working.now]

\* sqlite3.connect(DB_FILE) with the default isolation level: a statement
\* that writes opens a transaction, and until conn.commit() the other
\* connections read the committed database.  Of the working copy only the
\* reading of the clock, which is no part of the database, is common.
ConnWrite(committed, working) == [committed EXCEPT !.now = working.now]

\* The statements before the first write: connect, SELECT the old values,
\* read the clock (set_scenario_shares reads it later).
Begin(op, args, d) ==
    CASE op = "create_scenario" ->
            [NoCall EXCEPT !.op = op, !.args = args, !.db = Tick(d)]
      [] op = "update_scenario" ->
            [NoCall EXCEPT !.op = op, !.args = args, !.db = Tick(d),
                           !.old_data = {s \in d.scenarios : s.id = args[1]}]
      [] OTHER ->
            [NoCall EXCEPT !.op = op, !.args = args, !.db = d,
                           !.old_shares = get_scenario_shares(d, args[1]),
                           !.keys = DictKeys(args[2])]

FirstStatement(op) == IF op = "set_scenario_shares" THEN "delete" ELSE "clear"

\* The statement of create_scenario at pc: the call after it and the next
\* pc, "raised" when the statement raises sqlite3.IntegrityError.
create_scenario_Statement(c, pc) ==
    LET name == c.args[1]
        description == c.args[2]
        is_default == c.args[3]
        w == c.db
    IN  CASE pc = "clear" ->
                [c |-> [c EXCEPT !.db = IF is_default # 0 THEN ClearDefaults(w) ELSE w],
                 pc |-> "insert"]
          [] pc = "insert" ->
                IF name = None \/ \E s \in w.scenarios : s.name = name
                THEN [c |-> c, pc |-> "raised"]
                ELSE [c |-> [c EXCEPT !.db = InsertScenario(w, name, description,
                                                            is_default, w.now)],
                      pc |-> "audit"]
          [] OTHER ->
                [c |-> [c EXCEPT !.db =
                            log_audit(w, "scenario", w.seq.scenarios, "created", Null,
                                json_dumps([name |-> name, description |-> description]),
                                w.now)],
                 pc |-> "commit"]

update_scenario_Statement(c, pc) ==
    LET scenario_id == c.args[1]
        name == c.args[2]
        description == c.args[3]
        is_default == c.args[4]
        w == c.db
    IN  CASE pc = "clear" ->
                [c |-> [c EXCEPT !.db = IF is_default # 0 THEN ClearDefaults(w) ELSE w],
                 pc |-> "update"]
          [] pc = "update" ->
                IF \E s \in w.scenarios : s.id = scenario_id /\
                        (name = None \/ \E o \in w.scenarios : o.id # s.id /\ o.name = name)
                THEN [c |-> c, pc |-> "raised"]
                ELSE [c |-> [c EXCEPT !.db.scenarios =
                                {IF s.id = scenario_id
                                 THEN [s EXCEPT !.name = name,
                                                !.description = description,
                                                !.is_default = is_default,
                                                !.updated_at = w.now]
                                 ELSE s : s \in @}],
                      pc |-> "audit"]
          [] OTHER ->
                [c |-> IF c.old_data = {} THEN c
                       ELSE LET o == CHOOSE s \in c.old_data : TRUE
                            IN  [c EXCEPT !.db =
                                    log_audit(w, "scenario", scenario_id, "updated",
                                        json_dumps([name |-> o.name,
                                                    description |-> o.description,
                                                    is_default |-> o.is_default]),
                                        json_dumps([name |-> name,
                                                    description |-> description,
                                                    is_default |-> is_default]),
                                        w.now)],
                 pc |-> "commit"]

\* The INSERT of a share that is None fails on NOT NULL; nothing catches it.
set_scenario_shares_Statement(c, pc) ==
    LET scenario_id == c.args[1]
        shares == c.args[2]
        w == c.db
    IN  CASE pc = "delete" ->
                [c |-> [c EXCEPT !.db.scenario_shares =
                            {r \in @ : r.scenario_id # scenario_id}],
                 pc |-> IF c.keys = <<>> THEN "touch" ELSE "insert"]
          [] pc = "insert" ->
                LET user_name == Head(c.keys)
                IN  IF shares[user_name] = Null
                    THEN [c |-> c, pc |-> "raised"]
                    ELSE [c |-> [c EXCEPT
                                    !.db = InsertShares(w, scenario_id,
                                                [p \in {user_name} |-> shares[p]]),
                                    !.keys = Tail(@)],
                          pc |-> IF Len(c.keys) = 1 THEN "touch" ELSE "insert"]
          [] pc = "touch" ->
                LET t == Tick(w)
                IN  [c |-> [c EXCEPT !.db =
                                [t EXCEPT !.scenarios =
                                    {IF s.id = scenario_id
                                     THEN [s EXCEPT !.updated_at = t.now] ELSE s :
                                        s \in @}]],
                     pc |-> "audit"]
          [] OTHER ->
                [c |-> [c EXCEPT !.db =
                            log_audit(w, "scenario_shares", scenario_id, "updated",
                                json_dumps(c.old_shares), json_dumps(shares), w.now)],
                 pc |-> "commit"]

ExecuteStatement(c, pc) ==
    CASE c.op = "create_scenario" -> create_scenario_Statement(c, pc)
      [] c.op = "update_scenario" -> update_scenario_Statement(c, pc)
      [] OTHER -> set_scenario_shares_Statement(c, pc)

\* The value a call returns after conn.commit().
Returned(c) ==
    CASE c.op = "create_scenario" -> c.db.seq.scenarios
      [] c.op = "update_scenario" -> TRUE
      [] OTHER -> None

\* The outcome of a call whose statement raised: -1 and False from the
\* except branches, the exception itself from set_scenario_shares.
Refused(c) ==
    CASE c.op = "create_scenario" -> -1
      [] c.op = "update_scenario" -> FALSE
      [] OTHER -> "IntegrityError"

-----------------------------------------------------------------------------
(* State machine: the variables hold the database, the clock, the last call *)
(* made (last_op, last_args, last_ret: its name, arguments and return      *)
(* value) and the call that came just before the most recent call of a     *)
(* writing function (prev_op, prev_args, prev_ret).  In the runs that take  *)
(* a scenario call one statement at a time, txn is the call in progress and *)
(* txn_pc its next statement ("idle": no call is in progress).              *)

DB ==
    [scenarios |-> scenarios, scenario_shares |-> scenario_shares,
     audit_log |-> audit_log, projects |-> projects, worklog |-> worklog,
     users |-> users, seq |-> seq, now |-> now]

Load(d) ==
    /\ scenarios = d.scenarios
    /\ scenario_shares = d.scenario_shares
    /\ audit_log = d.audit_log
    /\ projects = d.projects
    /\ worklog = d.worklog
    /\ users = d.users
    /\ seq = d.seq
    /\ now = d.now

Apply(r, op, args) ==
    /\ scenarios' = r.db.scenarios
    /\ scenario_shares' = r.db.scenario_shares
    /\ audit_log' = r.db.audit_log
    /\ projects' = r.db.projects
    /\ worklog' = r.db.worklog
    /\ users' = r.db.users
    /\ seq' = r.db.seq
    /\ now' = r.db.now
    /\ last_op' = op /\ last_args' = args /\ last_ret' = r.ret
    /\ prev_op' = last_op /\ prev_args' = last_args /\ prev_ret' = last_ret
    /\ UNCHANGED <<txn_pc, txn>>

\* A call of a function that only reads: the database and prev stay.
Query(ret, op, args) ==
    /\ last_op' = op /\ last_args' = args /\ last_ret' = ret
    /\ UNCHANGED <<scenarios, scenario_shares, audit_log, projects, worklog,
                   users, seq, now, prev_op, prev_args, prev_ret, txn_pc, txn>>

\* The number of clock readings a checked run makes.
MaxClock == 4

\* main() runs init_db() first: the database after the first start.
Init ==
    /\ Load(init_db(EmptyDB).db)
    /\ last_op = "init_db" /\ last_args = <<>> /\ last_ret = None
    /\ prev_op = "start" /\ prev_args = <<>> /\ prev_ret = None
    /\ txn_pc = "idle" /\ txn = NoCall

InitDb ==
    /\ now < MaxClock
    /\ Apply(init_db(DB), "init_db", <<>>)

CreateProject(name, proj_date, scenario, value, planned_days) ==
    /\ now < MaxClock
    /\ Apply(create_project(DB, name, proj_date, scenario, value, planned_days),
             "create_project", <<name, proj_date, scenario, value, planned_days>>)

DeleteProject(project_id) ==
    Apply(delete_project(DB, project_id), "delete_project", <<project_id>>)

AddUser(name, share_percentage) ==
    /\ now < MaxClock
    /\ Apply(add_user(DB, name, share_percentage), "add_user",
             <<name, share_percentage>>)

DeleteUser(name) ==
    Apply(delete_user(DB, name), "delete_user", <<name>>)

CreateScenario(name, description, is_default) ==
    /\ now < MaxClock
    /\ Apply(create_scenario(DB, name, description, is_default),
             "create_scenario", <<name, description, is_default>>)

UpdateScenario(scenario_id, name, description, is_default) ==
    /\ now < MaxClock
    /\ Apply(update_scenario(DB, scenario_id, name, description, is_default),
             "update_scenario", <<scenario_id, name, description, is_default>>)

DeleteScenario(scenario_id) ==
    /\ now < MaxClock
    /\ Apply(delete_scenario(DB, scenario_id), "delete_scenario", <<scenario_id>>)

SetScenarioShares(scenario_id, shares) ==
    /\ now < MaxClock
    /\ Apply(set_scenario_shares(DB, scenario_id, shares),
             "set_scenario_shares", <<scenario_id, shares>>)

ImportScenarios(scenarios_data) ==
    /\ now < MaxClock
    /\ Apply(import_scenarios_json(DB, scenarios_data),
             "import_scenarios_json", <<scenarios_data>>)

\* The clock reading up to which an import of the import runs may start.
MaxImportClock == 6

ImportBatch(scenarios_data) ==
    /\ now < MaxImportClock
    /\ Apply(import_scenarios_json(DB, scenarios_data),
             "import_scenarios_json", <<scenarios_data>>)

\* The clock reading up to which a call of the restart runs and of the
\* rename runs may start.
MaxMigrateClock == 6

\* main() runs init_db() at the start of every rerun of the script.
Restart ==
    /\ now < MaxMigrateClock
    /\ Apply(init_db(DB), "init_db", <<>>)

RemoveScenario(scenario_id) ==
    /\ now < MaxMigrateClock
    /\ Apply(delete_scenario(DB, scenario_id), "delete_scenario", <<scenario_id>>)

SaveShares(scenario_id, shares) ==
    /\ now < MaxMigrateClock
    /\ Apply(set_scenario_shares(DB, scenario_id, shares),
             "set_scenario_shares", <<scenario_id, shares>>)

RenameScenario(scenario_id, name) ==
    /\ now < MaxMigrateClock
    /\ Apply(update_scenario(DB, scenario_id, name, "", 0),
             "update_scenario", <<scenario_id, name, "", 0>>)

ExportScenarios ==
    Query(export_scenarios_json(DB), "export_scenarios_json", <<>>)

ValidateShares(shares) ==
    Query(validate_shares(shares), "validate_shares", <<shares>>)

LogAttendance(project_id, log_date, partner, present) ==
    /\ now < MaxClock
    /\ Apply(log_attendance(DB, project_id, log_date, partner, present),
             "log_attendance", <<project_id, log_date, partner, present>>)

GetWorkedDays(project_id, partners) ==
    Query(get_worked_days_by_partner(DB, project_id, partners),
          "get_worked_days_by_partner", <<project_id, partners>>)

\* Mutant: the report of the call before the last write is returned again
\* when that call had the same arguments.
CalculatePayouts_Cached(project_id, partners) ==
    Query(IF prev_op = "calculate_payouts" /\ prev_args = <<project_id, partners>>
          THEN prev_ret
          ELSE calculate_payouts(DB, project_id, partners),
          "calculate_payouts", <<project_id, partners>>)

CalculatePayouts(project_id, partners) ==
    Query(calculate_payouts(DB, project_id, partners),
          "calculate_payouts", <<project_id, partners>>)

CalculatePayoutsBinary64(project_id, partners) ==
    Query(F64Report(DB, project_id, partners),
          "calculate_payouts", <<project_id, partners>>)

GetAuditLog(entity_type, entity_id, limit) ==
    \E logs \in get_audit_log(DB, entity_type, entity_id, limit) :
        Query(logs, "get_audit_log", <<entity_type, entity_id, limit>>)

GetWorklog(project_id) ==
    Query(get_worklog_for_project(DB, project_id),
          "get_worklog_for_project", <<project_id>>)

-----------------------------------------------------------------------------

\* What the other connections read after a step of the call in progress.
Store(d) ==
    /\ scenarios' = d.scenarios
    /\ scenario_shares' = d.scenario_shares
    /\ audit_log' = d.audit_log
    /\ projects' = d.projects
    /\ worklog' = d.worklog
    /\ users' = d.users
    /\ seq' = d.seq
    /\ now' = d.now

\* A call comes back: it is the last call made.
Return(op, args, ret) ==
    /\ last_op' = op /\ last_args' = args /\ last_ret' = ret
    /\ prev_op' = last_op /\ prev_args' = last_args /\ prev_ret' = last_ret

\* A scenario call starts: its connection is opened and it reads what it
\* needs before its first write.  One call writes at a time: a second
\* connection that writes waits for the lock.
Call(op, args) ==
    /\ txn_pc = "idle"
    /\ now < MaxClock
    /\ txn' = Begin(op, args, DB)
    /\ txn_pc' = FirstStatement(op)
    /\ Store(ConnWrite(DB, txn'.db))
    /\ UNCHANGED <<last_op, last_args, last_ret, prev_op, prev_args, prev_ret>>

\* The call in progress executes its next statement.
Statement ==
    /\ txn_pc \notin {"idle", "commit"}
    /\ ExecuteStatement(txn, txn_pc).pc # "raised"
    /\ txn' = ExecuteStatement(txn, txn_pc).c
    /\ txn_pc' = ExecuteStatement(txn, txn_pc).pc
    /\ Store(ConnWrite(DB, txn'.db))
    /\ UNCHANGED <<last_op, last_args, last_ret, prev_op, prev_args, prev_ret>>

\* The next statement raises: the connection is closed, or dropped with the
\* exception, without commit, and its transaction is rolled back.
Raise ==
    /\ txn_pc \notin {"idle", "commit"}
    /\ ExecuteStatement(txn, txn_pc).pc = "raised"
    /\ txn' = NoCall
    /\ txn_pc' = "idle"
    /\ Store(ConnWrite(DB, txn.db))
    /\ Return(txn.op, txn.args, Refused(txn))

\* conn.commit(): the working copy is the database.
Commit ==
    /\ txn_pc = "commit"
    /\ txn' = NoCall
    /\ txn_pc' = "idle"
    /\ Store(txn.db)
    /\ Return(txn.op, txn.args, Returned(txn))

\* Reads of another connection.
GetScenarioShares(scenario_id) ==
    Query(get_scenario_shares(DB, scenario_id), "get_scenario_shares",
          <<scenario_id>>)

GetAllScenarios ==
    Query(get_all_scenarios(DB), "get_all_scenarios", <<>>)

-----------------------------------------------------------------------------
(* Inputs of the scenario store runs *)

Dict1(v1) == [p \in {"W1"} |-> v1]

Dict2(v1, v2) == [p \in {"W1", "W2"} |-> IF p = "W1" THEN v1 ELSE v2]

Dict3(v1, v2, v3) ==
    [p \in {"W1", "W2", "W3"} |-> IF p = "W1" THEN v1 ELSE IF p = "W2" THEN v2 ELSE v3]

EmptyDict == [p \in {} |-> PyInt(0)]

StoreNames == {"Scenariusz 1", "Nowy"}

StoreIds == {1, 2, 4}

StoreShares == {Dict2(PyFloat(50, 1), PyFloat(50, 1)), Dict1(PyFloat(200, 1))}

StoreDocs ==
    {<<Entry("Scenariusz 2", "import", TRUE, Dict2(PyInt(60), PyInt(40))),
       Entry("Nowy", "", TRUE, Dict1(PyInt(200)))>>,
     <<Entry("Nowy", "", FALSE, EmptyDict)>>}

\* Share maps whose sum is 100, 99, 100, 100.02, 100.005, 99.995, 99.98, 200
\* and 0 (no map sums to exactly 100 +- 0.01, a sum binary floats cannot hit).
ValidateInputs ==
    {Dict3(PyFloat(40, 1), PyFloat(30, 1), PyFloat(30, 1)),
     Dict3(PyFloat(40, 1), PyFloat(30, 1), PyFloat(29, 1)),
     Dict3(PyFloat(3333, 100), PyFloat(3333, 100), PyFloat(3334, 100)),
     Dict2(PyFloat(50, 1), PyFloat(5002, 100)),
     Dict2(PyFloat(50, 1), PyFloat(50005, 1000)),
     Dict2(PyFloat(50, 1), PyFloat(49995, 1000)),
     Dict2(PyFloat(50, 1), PyFloat(4998, 100)),
     Dict1(PyFloat(200, 1)),
     EmptyDict}

Next ==
    \/ InitDb
    \/ \E name \in StoreNames, is_default \in {0, 1} :
            CreateScenario(name, "", is_default)
    \/ \E scenario_id \in StoreIds, name \in StoreNames, is_default \in {0, 1} :
            UpdateScenario(scenario_id, name, "opis", is_default)
    \/ \E scenario_id \in StoreIds \cup {3} : DeleteScenario(scenario_id)
    \/ \E scenario_id \in {2, 4}, shares \in StoreShares :
            SetScenarioShares(scenario_id, shares)
    \/ \E scenarios_data \in StoreDocs : ImportScenarios(scenarios_data)
    \/ \E scenario \in {"Scenariusz 1"} :
            CreateProject("Projekt", 1, scenario, PyFloat(1000, 1), 10)
    \/ \E project_id \in {1} : DeleteProject(project_id)

Spec == Init /\ [][Next]_vars

-----------------------------------------------------------------------------
(* Attendance ledger runs: one project is created and deleted, attendance  *)
(* is written for it and for a project id that has no project row.         *)

LedgerPartners == {"W1", "W2"}

LedgerDates == {1, 2}

NextLedger ==
    \/ \E scenario \in {"Scenariusz 1"} :
            CreateProject("Projekt", 1, scenario, PyFloat(1000, 1), 10)
    \/ \E project_id \in {1} : DeleteProject(project_id)
    \/ \E project_id \in {1, 2}, log_date \in LedgerDates,
          partner \in LedgerPartners, present \in {0, 1} :
            LogAttendance(project_id, log_date, partner, present)

SpecLedger == Init /\ [][NextLedger]_vars

-----------------------------------------------------------------------------
(* Worked-days runs: attendance is written for two project ids and the      *)
(* worked days of project 1 are read (neither function reads the projects   *)
(* table).                                                                   *)

\* The partner lists asked for: W3 never has an entry.
LedgerRequests == {{"W1", "W2"}, {"W2", "W3"}}

NextWorked ==
    \/ \E project_id \in {1, 2}, log_date \in LedgerDates,
          partner \in LedgerPartners, present \in {0, 1} :
            LogAttendance(project_id, log_date, partner, present)
    \/ \E project_id \in {1}, partners \in LedgerRequests :
            GetWorkedDays(project_id, partners)

SpecWorked == Init /\ [][NextWorked]_vars

-----------------------------------------------------------------------------
(* Payout runs: the database of a run is the database after the first      *)
(* start, one save of scenario 1's shares, one project and the attendance  *)
(* of its partners; the runs then compute reports and validate share maps. *)

\* log_attendance(project_id, date, partner, 1) for the dates 1..days
RECURSIVE LogDays(_, _, _, _)
LogDays(d, project_id, partner, days) ==
    IF days = 0 THEN d
    ELSE log_attendance(LogDays(d, project_id, partner, days - 1),
                        project_id, days, partner, 1).db

PayoutShares ==
    {Dict3(PyFloat(40, 1), PyFloat(30, 1), PyFloat(30, 1)),
     Dict3(PyFloat(50, 1), PyFloat(50, 1), PyFloat(0, 1)),
     Dict2(PyFloat(3333, 100), PyFloat(3333, 100)),
     Dict1(PyFloat(200, 1))}

PayoutScenarios == {"Scenariusz 1", "Scenariusz 3", "Brak"}

PayoutValues == {PyFloat(1000, 1), PyFloat(0, 1)}

PayoutPlannedDays == {0, 1, 3, 10}

\* days worked by W1, W2, W3
PayoutWorked == {<<5, 3, 2>>, <<0, 0, 0>>, <<1, 0, 0>>, <<1, 1, 1>>, <<0, 4, 0>>}

PayoutPartners == {{"W1", "W2", "W3"}, {"W1"}, {"W2", "W3"}, {"W3", "W4"}}

InitPayout ==
    \E shares \in PayoutShares, scenario \in PayoutScenarios,
       value \in PayoutValues, planned_days \in PayoutPlannedDays,
       worked \in PayoutWorked :
        LET d0 == init_db(EmptyDB).db
            d1 == set_scenario_shares(d0, 1, shares).db
            d2 == create_project(d1, "Projekt", 1, scenario, value, planned_days).db
            d3 == LogDays(d2, 1, "W1", worked[1])
            d4 == LogDays(d3, 1, "W2", worked[2])
            d5 == LogDays(d4, 1, "W3", worked[3])
        IN  /\ Load(d5)
            /\ last_op = "init_db" /\ last_args = <<>> /\ last_ret = None
            /\ prev_op = "start" /\ prev_args = <<>> /\ prev_ret = None
            /\ txn_pc = "idle" /\ txn = NoCall

NextPayout ==
    \/ \E project_id \in {1, 2}, partners \in PayoutPartners :
            CalculatePayouts(project_id, partners)
    \/ \E shares \in ValidateInputs : ValidateShares(shares)

SpecPayout == InitPayout /\ [][NextPayout]_vars

-----------------------------------------------------------------------------
(* Share runs: share maps are saved and imported, scenario 3 is deleted and *)
(* created again, a project is created on scenario 1 or 3, attendance is    *)
(* written and the report is computed.                                      *)

\* Share maps whose sum is 90, 0 (no shares) and 100.
ShareMaps ==
    {Dict2(PyFloat(60, 1), PyFloat(30, 1)), EmptyDict,
     Dict3(PyFloat(20, 1), PyFloat(30, 1), PyFloat(50, 1))}

ShareDocs ==
    {<<Entry("Scenariusz 1", "import", FALSE, Dict1(PyInt(200)))>>,
     <<Entry("Scenariusz 3", "", FALSE, Dict2(PyFloat(50, 1), PyFloat(25, 1)))>>}

NextShares ==
    \/ \E scenario_id \in {1, 3}, shares \in ShareMaps :
            SetScenarioShares(scenario_id, shares)
    \/ \E scenarios_data \in ShareDocs : ImportScenarios(scenarios_data)
    \/ \E scenario_id \in {3} : DeleteScenario(scenario_id)
    \/ \E name \in {"Scenariusz 3"} : CreateScenario(name, "", 0)
    \/ \E scenario \in {"Scenariusz 1", "Scenariusz 3"} :
            CreateProject("Projekt", 1, scenario, PyFloat(1000, 1), 2)
    \/ \E partner \in {"W1", "W3"} : LogAttendance(1, 1, partner, 1)
    \/ \E partners \in {{"W1", "W2", "W3"}} : CalculatePayouts(1, partners)

SpecShares == Init /\ [][NextShares]_vars

-----------------------------------------------------------------------------
(* Import runs: documents are imported, also twice in a row, into stores    *)
(* that scenario calls have changed, and the store is exported.             *)

\* An entry of the JSON array that is a string, not an object.
StringEntry ==
    [json |-> "string", name |-> None, description |-> "", is_default |-> FALSE,
     shares |-> EmptyDict]

ImportDocs ==
    {<<Entry("Scenariusz 2", "import", TRUE, Dict2(PyInt(60), PyInt(40))),
       Entry("Nowy", "", TRUE, Dict1(PyInt(200)))>>,
     <<Entry("Nowy", "n", FALSE, EmptyDict)>>,
     <<Entry("Nowy", "a", TRUE, Dict1(PyInt(10))),
       Entry("Nowy", "b", FALSE, Dict1(PyInt(20)))>>,
     <<StringEntry, Entry("Nowy", "", FALSE, Dict1(PyInt(100)))>>,
     <<Entry("Scenariusz 3", "import", FALSE, Dict1(PyInt(100))),
       StringEntry,
       Entry("Nowy", "", FALSE, Dict1(PyInt(100)))>>,
     <<Entry(None, "", TRUE, Dict1(PyInt(100))),
       Entry("Nowy", "", FALSE, Dict1(PyInt(100)))>>}

NextImport ==
    \/ \E scenarios_data \in ImportDocs : ImportBatch(scenarios_data)
    \/ ExportScenarios
    \/ \E is_default \in {0, 1} : CreateScenario("Nowy", "", is_default)
    \/ \E is_default \in {0, 1} : UpdateScenario(2, "Scenariusz 2", "opis", is_default)
    \/ \E scenario_id \in {1, 3} : DeleteScenario(scenario_id)
    \/ \E shares \in {Dict1(PyFloat(200, 1))} : SetScenarioShares(2, shares)

SpecImport == Init /\ [][NextImport]_vars

-----------------------------------------------------------------------------
(* Properties of the scenario store *)

DefaultScenarios == {s \in scenarios : s.is_default # 0}

\* C1: after any sequence of scenario store operations (the migration of
\* init_db, create, update, delete, set shares, import) at most one scenario
\* has is_default set.
C1_AtMostOneDefault == Cardinality(DefaultScenarios) <= 1

\* C1 witness: a later call moved the flag from the migrated default (id 1)
\* to another scenario while scenario 1 is still stored.
C1_Witness ==
    /\ last_op \in {"create_scenario", "update_scenario", "import_scenarios_json"}
    /\ \E s \in scenarios : s.id = 1 /\ s.is_default = 0
    /\ \E s \in scenarios : s.id # 1 /\ s.is_default = 1

\* C2 (the claim as stated): whenever create_scenario or update_scenario is
\* called with is_default set and reports success, exactly one scenario has
\* the flag afterwards and it is the scenario created or updated.
C2_DefaultIsTheOneSet ==
    /\ (last_op = "create_scenario" /\ last_args[3] # 0 /\ last_ret # -1)
            => {s.id : s \in DefaultScenarios} = {last_ret}
    /\ (last_op = "update_scenario" /\ last_args[4] # 0 /\ last_ret = TRUE)
            => {s.id : s \in DefaultScenarios} = {last_args[1]}

\* The rows a delete of scenario_id is about.
ScenarioInUse(scenario_id) ==
    \E s \in scenarios : s.id = scenario_id /\
        \E p \in projects : p.scenario = s.name

\* C3: delete_scenario on a scenario whose name is referenced by at least one
\* project fails with the in-use message and leaves every scenario row, every
\* share row and the audit log unchanged.
C3_DeleteInUseStep ==
    \A scenario_id \in {s.id : s \in scenarios} :
        (ScenarioInUse(scenario_id) /\ last_op' = "delete_scenario"
            /\ last_args'[1] = scenario_id)
        => /\ last_ret'[1] = FALSE
           /\ last_ret'[3] = Cardinality({p \in projects : \E s \in scenarios :
                                s.id = scenario_id /\ p.scenario = s.name})
           /\ scenarios' = scenarios
           /\ scenario_shares' = scenario_shares
           /\ audit_log' = audit_log

C3_DeleteInUseFails == [][C3_DeleteInUseStep]_vars

\* C3 witness: a delete was refused because a project uses the scenario, and
\* the scenario and its shares are stored.
C3_Witness ==
    /\ last_op = "delete_scenario"
    /\ last_ret[1] = FALSE /\ last_ret[3] > 0
    /\ ScenarioInUse(last_args[1])
    /\ \E r \in scenario_shares : r.scenario_id = last_args[1]

-----------------------------------------------------------------------------
(* Properties of the attendance ledger *)

LedgerKey(w) == <<w.project_id, w.date, w.partner>>

EntriesOf(log, key) == {w \in log : LedgerKey(w) = key}

\* The present values readable for a key.
PresentOf(log, key) == {w.present : w \in EntriesOf(log, key)}

C4_OneEntryPerKey ==
    \A w1, w2 \in worklog : LedgerKey(w1) = LedgerKey(w2) => w1 = w2

\* A log_attendance step leaves exactly the value passed readable for its key;
\* a step that is no log_attendance of a key writes no value for that key.
C4_LastWriteStep ==
    /\ last_op' = "log_attendance" =>
            PresentOf(worklog', <<last_args'[1], last_args'[2], last_args'[3]>>)
                = {last_args'[4]}
    /\ \A key \in {LedgerKey(w) : w \in worklog \cup worklog'} :
            ~(last_op' = "log_attendance"
              /\ key = <<last_args'[1], last_args'[2], last_args'[3]>>)
            => PresentOf(worklog', key) \subseteq PresentOf(worklog, key)

\* C4: after any sequence of log_attendance calls the ledger holds at most one
\* entry per (project id, date, partner), and its present value is the value
\* passed by the most recent log_attendance call for that key.
C4_LastWriteWins == [](C4_OneEntryPerKey) /\ [][C4_LastWriteStep]_vars

\* C4 witness: two calls in a row wrote the same key, present = 1 and then
\* present = 0, and the ledger holds the one entry of the second call.
C4_Witness ==
    /\ prev_op = "log_attendance" /\ last_op = "log_attendance"
    /\ prev_args[4] = 1 /\ last_args[4] = 0
    /\ <<prev_args[1], prev_args[2], prev_args[3]>>
            = <<last_args[1], last_args[2], last_args[3]>>
    /\ PresentOf(worklog, <<last_args[1], last_args[2], last_args[3]>>) = {0}
    /\ Cardinality(worklog) = 1

\* The dates on which the ledger has partner present in the project.
DatesPresent(project_id, partner) ==
    {w.date : w \in {x \in worklog : x.project_id = project_id
                        /\ x.partner = partner /\ x.present = 1}}

\* C18: get_worked_days_by_partner(project, partners) returns a mapping whose
\* keys are the requested partners; a partner's value is the number of the
\* project's entries with present = 1 for that partner (one per date), 0 for a
\* partner with no entry or only present = 0 entries; entries of other
\* projects are not counted.
C18_WorkedDays ==
    last_op = "get_worked_days_by_partner" =>
        /\ DOMAIN last_ret = last_args[2]
        /\ \A p \in last_args[2] :
            /\ last_ret[p] = Cardinality(DatesPresent(last_args[1], p))
            /\ (\A w \in worklog :
                    (w.project_id = last_args[1] /\ w.partner = p) => w.present = 0)
                => last_ret[p] = 0

\* C18 witness: the mapping returned counts a present entry of one partner,
\* gives 0 to a partner whose only entry has present = 0, and the partner
\* counted also has a present entry in another project.
C18_Witness ==
    /\ last_op = "get_worked_days_by_partner"
    /\ \E p, q \in last_args[2] :
        /\ last_ret[p] = 1 /\ last_ret[q] = 0
        /\ \E w \in worklog : w.project_id = last_args[1] /\ w.partner = q
        /\ \E w \in worklog :
                w.project_id # last_args[1] /\ w.partner = p /\ w.present = 1

-----------------------------------------------------------------------------
(* Properties of the payout engine *)

\* The last call was calculate_payouts for a project that is stored.
ReportOfFoundProject ==
    /\ last_op = "calculate_payouts"
    /\ \E p \in projects : p.id = last_args[1]

ReportProject == CHOOSE p \in projects : p.id = last_args[1]

\* The days of the ledger on which partner was present in the project.
PresentDays(project_id, partner) ==
    Cardinality({w \in worklog : w.project_id = project_id
                    /\ w.partner = partner /\ w.present = 1})

\* The requested partners that have a positive share in the project's scenario.
PaidPartners ==
    LET m == ResolveShares(DB, ReportProject.scenario)
    IN  {p \in last_args[2] : p \in DOMAIN m /\ m[p][1] > 0}

\* share x (value - 3% of value) x days / (100 x planned days)
ExpectedPayout(share, value, planned_days, days) ==
    LET cut == NumDiv(NumMul(value, PyInt(3)), PyInt(100))
    IN  NumDiv(NumMul(NumMul(share, NumSub(value, cut)), PyInt(days)),
               PyInt(100 * planned_days))

\* The example of the specification: value 1000, 10 planned days, shares
\* 40 / 30 / 30, worked days 5 / 3 / 2, all three partners requested.
PayoutExample ==
    /\ ReportOfFoundProject
    /\ last_args[2] = {"W1", "W2", "W3"}
    /\ NumEq(ReportProject.value, PyInt(1000))
    /\ ReportProject.planned_days = 10
    /\ LET m == ResolveShares(DB, ReportProject.scenario)
       IN  /\ DOMAIN m = {"W1", "W2", "W3"}
           /\ NumEq(m["W1"], PyInt(40)) /\ NumEq(m["W2"], PyInt(30))
           /\ NumEq(m["W3"], PyInt(30))
    /\ PresentDays(last_args[1], "W1") = 5
    /\ PresentDays(last_args[1], "W2") = 3
    /\ PresentDays(last_args[1], "W3") = 2

\* C5: for a found project with planned_days > 0 every requested partner with
\* a positive share is paid (share/100) x ((value - 3% of value) / planned
\* days) x worked days; in the example the payouts are 194.00, 87.30 and 58.20,
\* total_paid is 339.50 and remaining is 630.50.
C5_PayoutFormula ==
    /\ (ReportOfFoundProject /\ ReportProject.planned_days > 0) =>
        \A p \in PaidPartners :
            /\ p \in DOMAIN last_ret.payouts
            /\ NumEq(last_ret.payouts[p].payout,
                     ExpectedPayout(ResolveShares(DB, ReportProject.scenario)[p],
                                    ReportProject.value, ReportProject.planned_days,
                                    PresentDays(last_args[1], p)))
    /\ PayoutExample =>
        /\ NumEq(last_ret.payouts["W1"].payout, PyInt(194))
        /\ NumEq(last_ret.payouts["W2"].payout, PyFloat(8730, 100))
        /\ NumEq(last_ret.payouts["W3"].payout, PyFloat(5820, 100))
        /\ NumEq(last_ret.total_paid, PyFloat(33950, 100))
        /\ NumEq(last_ret.remaining, PyFloat(63050, 100))

\* C5 witness: the report of the example has been computed.
C5_Witness == PayoutExample /\ DOMAIN last_ret.payouts = {"W1", "W2", "W3"}

C7_ZeroPlannedDays ==
    (ReportOfFoundProject /\ ReportProject.planned_days = 0) =>
        /\ DOMAIN last_ret.payouts = PaidPartners
        /\ \A p \in PaidPartners : NumEq(last_ret.payouts[p].payout, PyInt(0))
        /\ NumEq(last_ret.total_paid, PyInt(0))
        /\ NumEq(last_ret.remaining, last_ret.distributable)
        /\ NumEq(last_ret.distributable,
                 ExpectedPayout(PyInt(100), ReportProject.value, 1, 1))

\* C7 witness: a report for a project of value 1000 with no planned days in
\* which a partner with a positive share and worked days is listed.
C7_Witness ==
    /\ ReportOfFoundProject /\ ReportProject.planned_days = 0
    /\ NumEq(ReportProject.value, PyInt(1000))
    /\ \E p \in PaidPartners : PresentDays(last_args[1], p) > 0

\* C8 (the claim as stated): for a project with value >= 0 and planned_days
\* >= 1, whenever the report has remaining < 0 it has over_plan = TRUE.
C8_OverrunIsFlagged ==
    (ReportOfFoundProject /\ ReportProject.value[1] >= 0
        /\ ReportProject.planned_days >= 1
        /\ NumLt(last_ret.remaining, PyInt(0)))
    => last_ret.over_plan = TRUE

\* The worked days of all requested partners, from the ledger.
RequestedPresentDays ==
    Cardinality({w \in worklog : w.project_id = last_args[1]
                    /\ w.partner \in last_args[2] /\ w.present = 1})

\* C9: over_plan is TRUE exactly when the worked days of all requested
\* partners, those without a positive share included, sum to more than
\* planned_days; the worked days listed and paid are the days of the ledger,
\* never capped at planned_days.
C9_OverPlanFlag ==
    ReportOfFoundProject =>
        /\ last_ret.over_plan = (RequestedPresentDays > ReportProject.planned_days)
        /\ last_ret.total_worked_days = RequestedPresentDays
        /\ \A p \in DOMAIN last_ret.payouts :
            /\ last_ret.payouts[p].worked_days = PresentDays(last_args[1], p)
            /\ ReportProject.planned_days > 0 =>
                NumEq(last_ret.payouts[p].payout,
                      ExpectedPayout(last_ret.payouts[p].share_pct,
                                     ReportProject.value, ReportProject.planned_days,
                                     PresentDays(last_args[1], p)))

\* C9 witness: a report that lists a partner, in which the flag is raised by
\* the days of a requested partner that has no positive share and worked more
\* than the planned days.
C9_Witness ==
    /\ ReportOfFoundProject /\ last_ret.over_plan = TRUE
    /\ ReportProject.planned_days > 0
    /\ DOMAIN last_ret.payouts # {}
    /\ IntSum([p \in DOMAIN last_ret.payouts |-> last_ret.payouts[p].worked_days],
              DOMAIN last_ret.payouts) <= ReportProject.planned_days
    /\ \E p \in last_args[2] \ DOMAIN last_ret.payouts :
            PresentDays(last_args[1], p) > ReportProject.planned_days

\* C19: calculate_payouts for a project id that is not stored returns a
\* report marked with an error in which total_value, firm_cut, distributable,
\* planned_days, total_worked_days, total_paid and remaining are 0, payouts
\* is empty and over_plan is FALSE.
C19_NotFoundReport ==
    (last_op = "calculate_payouts" /\ \A p \in projects : p.id # last_args[1]) =>
        /\ last_ret.error # ""
        /\ NumEq(last_ret.total_value, PyInt(0))
        /\ NumEq(last_ret.firm_cut, PyInt(0))
        /\ NumEq(last_ret.distributable, PyInt(0))
        /\ last_ret.planned_days = 0
        /\ last_ret.total_worked_days = 0
        /\ DOMAIN last_ret.payouts = {}
        /\ NumEq(last_ret.total_paid, PyInt(0))
        /\ NumEq(last_ret.remaining, PyInt(0))
        /\ last_ret.over_plan = FALSE

\* C19 witness: a report was asked for a project id that is not stored, for
\* partners that have attendance in the stored project.
C19_Witness ==
    /\ last_op = "calculate_payouts"
    /\ \A p \in projects : p.id # last_args[1]
    /\ last_ret.error = "Nie znaleziono projektu"
    /\ \E w \in worklog : w.partner \in last_args[2] /\ w.present = 1

\* The sum of a share map in thousandths of a percent.
SumThousandths(shares) ==
    IntSum([k \in DOMAIN shares |-> (shares[k][1] * 1000) \div shares[k][2]],
           DOMAIN shares)

\* A validate_shares step returns is_valid = TRUE exactly when the sum is
\* less than 0.01 away from 100, returns the sum, and leaves the database as
\* it was.
C10_ValidateStep ==
    last_op' = "validate_shares" =>
        LET total == SumThousandths(last_args'[1])
        IN  /\ last_ret'[1] = (Abs(total - 100000) < 10)
            /\ last_ret'[3][1] * 1000 = total * last_ret'[3][2]
            /\ UNCHANGED <<scenarios, scenario_shares, audit_log, projects,
                           worklog, seq, now>>

\* C10: validate_shares(m) is valid exactly when the sum of m differs from 100
\* by less than 0.01, always returns that sum as total, and reads or changes
\* no stored state.
C10_ValidateShares == [][C10_ValidateStep]_vars

\* C10 witness: a map whose sum is 100.02 was rejected, in a database that
\* holds a project and attendance.
C10_Witness ==
    /\ last_op = "validate_shares"
    /\ last_ret[1] = FALSE
    /\ NumEq(last_ret[3], PyFloat(10002, 100))
    /\ projects # {} /\ worklog # {}

-----------------------------------------------------------------------------
(* Properties of saved shares *)

\* The (partner, percentage) pairs stored for a scenario id in a share table.
SharePairs(table, scenario_id) ==
    {<<r.user_name, r.share_percentage>> :
        r \in {x \in table : x.scenario_id = scenario_id}}

\* The pairs of a share map passed to a call, as the REAL column holds them.
MapPairs(shares) == {<<k, ToReal(shares[k])>> : k \in DOMAIN shares}

\* The share map stored for the scenario of the given name.
StoredShares(name) ==
    LET rows == {r \in scenario_shares :
                    \E s \in scenarios : s.name = name /\ s.id = r.scenario_id}
    IN  [u \in {r.user_name : r \in rows} |->
            (CHOOSE r \in rows : r.user_name = u).share_percentage]

ScenarioIsStored(name) == \E s \in scenarios : s.name = name

\* A set_scenario_shares step stores exactly the map passed; an import that
\* returns a count stores, for every name of the document, the map of the
\* last entry of that name.
C11_SaveStep ==
    /\ last_op' = "set_scenario_shares" =>
            SharePairs(scenario_shares', last_args'[1]) = MapPairs(last_args'[2])
    /\ (last_op' = "import_scenarios_json" /\ last_ret'[1] = TRUE) =>
            \A i \in 1..Len(last_args'[1]) :
                LET doc == last_args'[1]
                IN  (\A j \in (i + 1)..Len(doc) : doc[j].name # doc[i].name)
                    => \E s \in scenarios' :
                        /\ s.name = doc[i].name
                        /\ SharePairs(scenario_shares', s.id)
                                = MapPairs(doc[i].shares)

\* A report for a project whose scenario is stored lists exactly the requested
\* partners with a positive stored percentage, with that percentage, and
\* pays them by it.
C11_ReportUsesStored ==
    (ReportOfFoundProject /\ ScenarioIsStored(ReportProject.scenario)) =>
        LET m == StoredShares(ReportProject.scenario)
        IN  /\ DOMAIN last_ret.payouts
                    = {p \in last_args[2] : p \in DOMAIN m /\ m[p][1] > 0}
            /\ \A p \in DOMAIN last_ret.payouts :
                    /\ NumEq(last_ret.payouts[p].share_pct, m[p])
                    /\ ReportProject.planned_days > 0 =>
                        NumEq(last_ret.payouts[p].payout,
                              ExpectedPayout(m[p], ReportProject.value,
                                             ReportProject.planned_days,
                                             PresentDays(last_args[1], p)))

\* C11: set_scenario_shares and import_scenarios_json store the share map
\* they are given whether or not validate_shares accepts it, and
\* calculate_payouts computes with exactly the stored percentages.
C11_SharesSavedAsGiven == [](C11_ReportUsesStored) /\ [][C11_SaveStep]_vars

\* C11 witness: a report that pays a partner by a stored share map that
\* validate_shares rejects.
C11_Witness ==
    /\ ReportOfFoundProject /\ ScenarioIsStored(ReportProject.scenario)
    /\ validate_shares(StoredShares(ReportProject.scenario))[1] = FALSE
    /\ \E p \in DOMAIN last_ret.payouts : last_ret.payouts[p].payout[1] > 0

-----------------------------------------------------------------------------
(* Properties of export and import *)

\* What a store says about its scenarios, by name: description, default flag
\* and share map.
StoreView(d) ==
    {<<s.name, s.description, s.is_default # 0,
       SharePairs(d.scenario_shares, s.id)>> : s \in d.scenarios}

\* C12: after an export of any reachable store, importing the exported
\* document into an empty store succeeds and yields the same scenario names
\* with the same description, default flag and share map for each name.
C12_ExportImportRoundTrip ==
    last_op = "export_scenarios_json" =>
        LET r == import_scenarios_json(EmptyDB, last_ret)
        IN  /\ r.ret = <<TRUE, Cardinality(scenarios)>>
            /\ StoreView(r.db) = StoreView(DB)

\* C12 witness: the store exported holds a scenario that is not one of the
\* migrated ones, it is the default and has shares, and a migrated scenario
\* has been deleted.
C12_Witness ==
    /\ last_op = "export_scenarios_json"
    /\ Len(last_ret) = 3
    /\ last_ret[1].name = "Nowy" /\ last_ret[1].is_default = TRUE
    /\ DOMAIN last_ret[1].shares # {}
    /\ \E i \in 2..3 : DOMAIN last_ret[i].shares = {"W1", "W2", "W3"}

\* The entry at i is the last entry of its name in the document.
LastOfName(doc, i) == \A j \in (i + 1)..Len(doc) : doc[j].name # doc[i].name

\* An entry after i asks for the default flag and names a scenario.
LaterDefault(doc, i) ==
    \E j \in (i + 1)..Len(doc) : doc[j].is_default /\ doc[j].name # None

IdsByName(d) == {<<s.id, s.name>> : s \in d.scenarios}

\* An import step keeps the id of every stored scenario the document names
\* and leaves one scenario per name; importing the same document again
\* changes no name, id, description, default flag or share map.
C13_UpsertFrame ==
    last_op' = "import_scenarios_json" =>
        LET doc == last_args'[1]
            again == import_scenarios_json(DB', doc).db
        IN  /\ \A s \in scenarios :
                    (\E i \in 1..Len(doc) : doc[i].name = s.name)
                    => \E t \in scenarios' : t.id = s.id /\ t.name = s.name
            /\ \A t1, t2 \in scenarios' : t1.name = t2.name => t1 = t2
            /\ StoreView(again) = StoreView(DB')
            /\ IdsByName(again) = IdsByName(DB')

\* C13 (the claim as stated): after an import that returns a count, the
\* scenario of every name of the document has the description, the default
\* flag and the shares of the (last) entry of that name.
C13_TakesImportedValues ==
    [][(last_op' = "import_scenarios_json" /\ last_ret'[1] = TRUE) =>
        LET doc == last_args'[1]
        IN  /\ C13_UpsertFrame
            /\ \A i \in 1..Len(doc) :
                    (doc[i].name # None /\ LastOfName(doc, i))
                    => \E t \in scenarios' :
                        /\ t.name = doc[i].name
                        /\ t.description = doc[i].description
                        /\ (t.is_default # 0) = doc[i].is_default
                        /\ SharePairs(scenario_shares', t.id)
                                = MapPairs(doc[i].shares)]_vars

\* C13 (amended): import never creates a second scenario for a stored name;
\* the stored scenario keeps its id and takes the description and shares of
\* the last entry of its name, and that entry's default flag unless a later
\* entry of the document is marked default; importing the same document
\* twice leaves the same scenarios, flags and share maps as importing it once.
C13_ImportUpserts ==
    [][/\ C13_UpsertFrame
       /\ (last_op' = "import_scenarios_json" /\ last_ret'[1] = TRUE) =>
            LET doc == last_args'[1]
            IN  \A i \in 1..Len(doc) :
                    (doc[i].name # None /\ LastOfName(doc, i))
                    => \E t \in scenarios' :
                        /\ t.name = doc[i].name
                        /\ t.description = doc[i].description
                        /\ (t.is_default # 0)
                                = (doc[i].is_default /\ ~LaterDefault(doc, i))
                        /\ SharePairs(scenario_shares', t.id)
                                = MapPairs(doc[i].shares)]_vars

\* C13 witness: the same two-entry document was imported twice in a row; it
\* names the stored scenario 2, which kept its id and took the description.
C13_Witness ==
    /\ prev_op = "import_scenarios_json" /\ last_op = "import_scenarios_json"
    /\ prev_args = last_args
    /\ last_ret = <<TRUE, 2>>
    /\ \E t \in scenarios :
            t.id = 2 /\ t.name = "Scenariusz 2" /\ t.description = "import"
    /\ \E i \in 1..Len(last_args[1]) : last_args[1][i].name = "Scenariusz 2"

\* An entry import cannot store: it is no object, or it names no scenario.
Malformed(entry) == entry.json # "object" \/ entry.name = None

\* C14 (the claim as stated): an import of a document with one malformed
\* entry returns the count of its well-formed entries and stores every
\* well-formed entry, those after the malformed one included.
C14_MalformedEntrySkipped ==
    [][(/\ last_op' = "import_scenarios_json"
        /\ Cardinality({i \in 1..Len(last_args'[1]) :
                            Malformed(last_args'[1][i])}) = 1) =>
        LET doc == last_args'[1]
            good == {i \in 1..Len(doc) : ~Malformed(doc[i])}
        IN  /\ last_ret' = <<TRUE, Cardinality(good)>>
            /\ \A i \in good :
                    LastOfName(doc, i)
                    => \E t \in scenarios' :
                        /\ t.name = doc[i].name
                        /\ t.description = doc[i].description
                        /\ SharePairs(scenario_shares', t.id)
                                = MapPairs(doc[i].shares)]_vars

-----------------------------------------------------------------------------
(* Properties of the audit trail and of scenario names *)

\* C15: every step leaves each audit entry as it was and only appends: the
\* log after the step is the log before it plus zero or more entries with
\* ids above every id of the log before.
C15_AuditAppendOnly ==
    [][/\ audit_log \subseteq audit_log'
       /\ \A new \in audit_log' \ audit_log :
            \A old \in audit_log : new.id > old.id]_vars

\* C15 witness: a scenario was deleted and the entries written for it
\* before the delete are in the log with the entry of the delete.
C15_Witness ==
    /\ last_op = "delete_scenario" /\ last_ret[1] = TRUE
    /\ \E a \in audit_log :
            a.entity_id = last_args[1] /\ a.action = "deleted"
    /\ \E a \in audit_log :
            a.entity_id = last_args[1] /\ a.action \in {"migrated", "created"}
    /\ \E a \in audit_log :
            a.entity_id = last_args[1] /\ a.entity_type = "scenario_shares"

\* C16: no two stored scenarios have the same name (or the same id), after
\* any sequence of migrations, creates, renames, deletes and imports.
C16_UniqueNames ==
    \A s1, s2 \in scenarios : (s1.name = s2.name \/ s1.id = s2.id) => s1 = s2

\* C16 witness: a rename to the name of another stored scenario was refused.
C16_Witness ==
    /\ last_op = "update_scenario" /\ last_ret = FALSE
    /\ \E s \in scenarios : s.id = last_args[1] /\ s.name # last_args[2]
    /\ \E s \in scenarios : s.id # last_args[1] /\ s.name = last_args[2]

\* The last call was a create or an update refused for its name.
RefusedForName(op, ret) ==
    \/ op = "create_scenario" /\ ret = -1
    \/ op = "update_scenario" /\ ret = FALSE

\* C17: a create_scenario that returns -1 and an update_scenario that returns
\* False leave every scenario row (names, descriptions, default flags), every
\* share row and the audit log as they were, also when is_default was passed.
C17_RefusedChangesNothing ==
    [][RefusedForName(last_op', last_ret') =>
        /\ scenarios' = scenarios
        /\ scenario_shares' = scenario_shares
        /\ audit_log' = audit_log]_vars

\* C17 witness: an update that asked for the default flag was refused for its
\* name while another scenario is the default.
C17_Witness ==
    /\ last_op = "update_scenario" /\ last_ret = FALSE
    /\ last_args[4] = 1
    /\ \E s \in DefaultScenarios : s.id # last_args[1]

-----------------------------------------------------------------------------
(* Properties of the share source of a report *)

\* The share map the claim names for a scenario name: the stored scenario's
\* map when a scenario of the name is stored, else the built-in table's.
SharesByClaim(name) ==
    IF ScenarioIsStored(name) THEN StoredShares(name)
    ELSE IF name \in DOMAIN SCENARIOS THEN SCENARIOS[name]
    ELSE [p \in {} |-> PyInt(0)]

\* C20: a report lists the requested partners with a positive percentage in
\* the stored scenario of the project's scenario name, with that percentage,
\* whenever a scenario of the name is stored (also when its map is empty or
\* differs from the built-in entry of the name); the built-in table gives the
\* percentages only when no stored scenario has the name.
C20_ShareSource ==
    ReportOfFoundProject =>
        LET m == SharesByClaim(ReportProject.scenario)
        IN  /\ DOMAIN last_ret.payouts
                    = {p \in last_args[2] : p \in DOMAIN m /\ m[p][1] > 0}
            /\ \A p \in DOMAIN last_ret.payouts :
                    NumEq(last_ret.payouts[p].share_pct, m[p])

\* C20 witness: the project's scenario name is in the built-in table and no
\* scenario of the name is stored; the report lists the built-in percentages.
C20_Witness ==
    /\ ReportOfFoundProject
    /\ ~ScenarioIsStored(ReportProject.scenario)
    /\ ReportProject.scenario = "Scenariusz 3"
    /\ DOMAIN last_ret.payouts = {"W1", "W2", "W3"}
    /\ NumEq(last_ret.payouts["W3"].share_pct, PyFloat(3334, 100))
    /\ last_ret.payouts["W3"].payout[1] > 0

-----------------------------------------------------------------------------
(* Audit query runs: scenario calls write audit entries (the three entries  *)
(* of the migration share one timestamp) and the audit trail is queried     *)
(* with and without filters.                                                *)

AuditTypes == {None, "scenario", "scenario_shares"}

\* The entity_id asked for: None (the empty set) or 1.
AuditIds == {{}, {1}}

\* The page sizes asked for: main() asks for 20.
AuditLimits == {0, 2, 20}

NextAudit ==
    \/ \E scenario_id \in {1} : UpdateScenario(scenario_id, "Scenariusz 1", "opis", 0)
    \/ \E scenario_id \in {1} : SetScenarioShares(scenario_id, Dict1(PyFloat(100, 1)))
    \/ \E scenario_id \in {2} : DeleteScenario(scenario_id)
    \/ \E entity_type \in AuditTypes, entity_id \in AuditIds, limit \in AuditLimits :
            GetAuditLog(entity_type, entity_id, limit)

SpecAudit == Init /\ [][NextAudit]_vars

-----------------------------------------------------------------------------
(* Ledger listing runs: attendance is written for two project ids, two     *)
(* dates and two partners, and the entries of a project are listed.        *)

NextWorklog ==
    \/ \E project_id \in {1, 2}, log_date \in LedgerDates,
          partner \in LedgerPartners, present \in {0, 1} :
            LogAttendance(project_id, log_date, partner, present)
    \/ \E project_id \in {1, 2} : GetWorklog(project_id)

SpecWorklog == Init /\ [][NextWorklog]_vars

-----------------------------------------------------------------------------
(* Attendance frame runs: partners are added and removed, a project is     *)
(* created and attendance is written, also for a partner that has no user  *)
(* row and for a project id that has no project row.                       *)

NextAttendance ==
    \/ \E name \in {"W4"} : AddUser(name, PyFloat(10, 1))
    \/ \E name \in {"W4"} : DeleteUser(name)
    \/ \E scenario \in {"Scenariusz 1"} :
            CreateProject("Projekt", 1, scenario, PyFloat(1000, 1), 10)
    \/ \E project_id \in {1, 2}, log_date \in LedgerDates,
          partner \in {"W1", "W4"}, present \in {0, 1} :
            LogAttendance(project_id, log_date, partner, present)

SpecAttendance == Init /\ [][NextAttendance]_vars

-----------------------------------------------------------------------------
(* Properties of the frame of an attendance write *)

\* The ledger entries of the keys other than the given one.
OtherEntries(log, key) == {w \in log : LedgerKey(w) # key}

\* C25: a log_attendance call leaves the audit log, the projects, the
\* scenarios, the share rows, the users and every ledger entry of another
\* (project id, date, partner) key as they were; of the id counters only the
\* ledger's moves.
C25_AttendanceFrame ==
    [][last_op' = "log_attendance" =>
        LET key == <<last_args'[1], last_args'[2], last_args'[3]>>
        IN  /\ audit_log' = audit_log
            /\ projects' = projects
            /\ scenarios' = scenarios
            /\ scenario_shares' = scenario_shares
            /\ users' = users
            /\ OtherEntries(worklog', key) = OtherEntries(worklog, key)
            /\ \A table \in DOMAIN seq \ {"worklog"} : seq'[table] = seq[table]]_vars

\* C25 witness: attendance was written for a key while the ledger holds an
\* entry of the same project and date for another partner and an entry of
\* another date, and a user row is stored.
C25_Witness ==
    /\ last_op = "log_attendance"
    /\ users # {} /\ audit_log # {} /\ scenarios # {} /\ scenario_shares # {}
    /\ \E w \in worklog :
            /\ w.project_id = last_args[1] /\ w.date = last_args[2]
            /\ w.partner # last_args[3]
    /\ Cardinality(worklog) = 2

-----------------------------------------------------------------------------
(* Properties of the ledger listing *)

\* C24: get_worklog_for_project(project_id) returns every ledger entry of
\* the project once and no entry of another project, a later date before an
\* earlier one and, within one date, the partners in ascending name order.
C24_WorklogListing ==
    last_op = "get_worklog_for_project" =>
        LET logs == last_ret
        IN  /\ {logs[i] : i \in 1..Len(logs)}
                    = {w \in worklog : w.project_id = last_args[1]}
            /\ Len(logs) = Cardinality({w \in worklog : w.project_id = last_args[1]})
            /\ \A i, j \in 1..Len(logs) :
                    i < j =>
                        \/ logs[i].date > logs[j].date
                        \/ /\ logs[i].date = logs[j].date
                           /\ PartnerRank(logs[i].partner) < PartnerRank(logs[j].partner)

\* C24 witness: a listing of three entries on two dates, written in another
\* order than the listing gives: the later date comes first, its partner W1
\* before its partner W2, though W2's entry was written first and the entry
\* of the earlier date before both.
C24_Witness ==
    /\ last_op = "get_worklog_for_project"
    /\ Len(last_ret) = 3
    /\ last_ret[1].date = 2 /\ last_ret[1].partner = "W1"
    /\ last_ret[2].date = 2 /\ last_ret[2].partner = "W2"
    /\ last_ret[3].date = 1
    /\ last_ret[3].id < last_ret[2].id /\ last_ret[2].id < last_ret[1].id

-----------------------------------------------------------------------------
(* Properties of the audit trail query *)

\* The audit entries that match the filters of a query: a type that is None
\* and an id that is None (the empty set) were not given.
MatchingEntries(entity_type, entity_id) ==
    {a \in audit_log :
        /\ entity_type # None => a.entity_type = entity_type
        /\ entity_id # {} => {a.entity_id} = entity_id}

\* C23: get_audit_log(entity_type, entity_id, limit) returns at most limit
\* entries of the audit log, none twice and as many as the limit and the
\* matching entries allow, every one matching each filter given, in
\* non-increasing created_at order, and no matching entry left out is newer
\* than a returned one.
C23_AuditQuery ==
    last_op = "get_audit_log" =>
        LET logs == last_ret
            limit == last_args[3]
            matching == MatchingEntries(last_args[1], last_args[2])
            returned == {logs[i] : i \in 1..Len(logs)}
        IN  /\ Len(logs) <= limit
            /\ returned \subseteq matching
            /\ Cardinality(returned) = Len(logs)
            /\ Len(logs) = limit \/ returned = matching
            /\ \A i, j \in 1..Len(logs) :
                    i < j => logs[i].created_at >= logs[j].created_at
            /\ \A a \in matching \ returned : \A r \in returned :
                    a.created_at <= r.created_at

\* C23 witness: a query by type and id cut by its limit: it returns the
\* newest matching entry and leaves out an older one that matches.
C23_Witness ==
    /\ last_op = "get_audit_log"
    /\ last_args[1] # None /\ last_args[2] # {}
    /\ Len(last_ret) = last_args[3] /\ Len(last_ret) > 0
    /\ \E a \in MatchingEntries(last_args[1], last_args[2]) :
            a.created_at < last_ret[Len(last_ret)].created_at
    /\ \E a \in audit_log : a.entity_type # last_args[1]
    /\ \E a \in audit_log : a.entity_id \notin last_args[2]

-----------------------------------------------------------------------------
(* Statement runs: scenario calls are taken one statement at a time, and    *)
(* another connection reads the share map of scenario 1 and the list of     *)
(* scenarios between any two statements.                                    *)

\* A share map with a share that is None.
NullShareMap ==
    [p \in {"W1", "W2"} |-> IF p = "W1" THEN PyFloat(50, 1) ELSE Null]

TxnCalls ==
    {<<"create_scenario", <<"Nowy", "", 1>>>>,
     <<"create_scenario", <<"Scenariusz 2", "", 1>>>>,
     <<"update_scenario", <<2, "Scenariusz 2", "opis", 1>>>>,
     <<"update_scenario", <<2, "Scenariusz 1", "opis", 1>>>>,
     <<"update_scenario", <<4, "Nowy", "opis", 1>>>>,
     <<"set_scenario_shares", <<1, Dict2(PyFloat(60, 1), PyFloat(30, 1))>>>>,
     <<"set_scenario_shares", <<1, NullShareMap>>>>}

NextTxn ==
    \/ \E call \in TxnCalls : Call(call[1], call[2])
    \/ Statement
    \/ Raise
    \/ Commit
    \/ \E scenario_id \in {1} : GetScenarioShares(scenario_id)
    \/ GetAllScenarios

SpecTxn == Init /\ [][NextTxn]_vars

-----------------------------------------------------------------------------
(* Properties of the audit entries of scenario calls *)

\* The last call of a scenario function reported success: create_scenario
\* returned an id, update_scenario True, delete_scenario (True, ...);
\* set_scenario_shares returns nothing and raises nothing.
ReportsSuccess(op, ret) ==
    \/ op = "create_scenario" /\ ret # -1
    \/ op = "update_scenario" /\ ret = TRUE
    \/ op = "delete_scenario" /\ ret[1] = TRUE
    \/ op = "set_scenario_shares"

\* The id of the scenario a call is about.
CalledScenario(op, args, ret) == IF op = "create_scenario" THEN ret ELSE args[1]

\* C21: every create_scenario, update_scenario, delete_scenario and
\* set_scenario_shares call that reports success appends exactly one audit
\* entry, with the scenario's id: type "scenario" and action created, updated
\* or deleted, and type "scenario_shares" with action updated for the shares.
C21_OneEntryPerSuccess ==
    [][ReportsSuccess(last_op', last_ret') =>
        \E a \in audit_log' \ audit_log :
            /\ audit_log' = audit_log \cup {a}
            /\ a.entity_id = CalledScenario(last_op', last_args', last_ret')
            /\ a.entity_type = IF last_op' = "set_scenario_shares"
                               THEN "scenario_shares" ELSE "scenario"
            /\ a.action = CASE last_op' = "create_scenario" -> "created"
                            [] last_op' = "delete_scenario" -> "deleted"
                            [] OTHER -> "updated"]_vars

-----------------------------------------------------------------------------
(* Properties of the share map a save leaves *)

\* The share rows of the scenarios other than the given one.
OtherShareRows(table, scenario_id) == {r \in table : r.scenario_id # scenario_id}

\* C22: after set_scenario_shares(id, m) the share map read for id has the
\* partners of m and no other, each with the percentage m gives (a partner of
\* the previous map that m leaves out is gone), and the share rows of every
\* other scenario are the rows they were.
C22_SharesReplaced ==
    [][last_op' = "set_scenario_shares" =>
        LET scenario_id == last_args'[1]
            m == last_args'[2]
            stored == get_scenario_shares(DB', scenario_id)
        IN  /\ DOMAIN stored = DOMAIN m
            /\ \A p \in DOMAIN m : NumEq(stored[p], m[p])
            /\ Cardinality({r \in scenario_shares' : r.scenario_id = scenario_id})
                    = Cardinality(DOMAIN m)
            /\ OtherShareRows(scenario_shares', scenario_id)
                    = OtherShareRows(scenario_shares, scenario_id)]_vars

\* C22 witness: a save whose map leaves out a partner of the map stored
\* before (the audit entry of the save holds both maps); the partner has no
\* stored share now and the other scenarios still have theirs.
C22_Witness ==
    /\ last_op = "set_scenario_shares"
    /\ \E a \in audit_log :
            /\ a.id = seq.audit_log /\ a.entity_type = "scenario_shares"
            /\ a.entity_id = last_args[1]
            /\ \E p \in DOMAIN a.old_value[2] :
                    /\ p \notin DOMAIN last_args[2]
                    /\ p \notin DOMAIN get_scenario_shares(DB, last_args[1])
    /\ DOMAIN last_args[2] # {}
    /\ \E r \in scenario_shares : r.scenario_id # last_args[1]

-----------------------------------------------------------------------------
(* Properties of the report as a read of the current state *)

\* A calculate_payouts step writes nothing: every table, every id counter and
\* the clock are as before.
C26_ReadStep ==
    last_op' = "calculate_payouts" =>
        UNCHANGED <<scenarios, scenario_shares, audit_log, projects, worklog,
                    users, seq, now>>

\* The report in hand is the report of the state in hand: the project's
\* value and planned days, the percentages of its scenario's share source
\* and the present days of the ledger, for the partners asked for.
C26_ReportOfCurrentState ==
    ReportOfFoundProject =>
        LET m == SharesByClaim(ReportProject.scenario)
            asked == last_args[2]
        IN  /\ NumEq(last_ret.total_value, ReportProject.value)
            /\ last_ret.planned_days = ReportProject.planned_days
            /\ DOMAIN last_ret.payouts
                    = {p \in asked : p \in DOMAIN m /\ m[p][1] > 0}
            /\ \A p \in DOMAIN last_ret.payouts :
                    /\ NumEq(last_ret.payouts[p].share_pct, m[p])
                    /\ last_ret.payouts[p].worked_days = PresentDays(last_args[1], p)
            /\ last_ret.total_worked_days
                    = Cardinality({w \in worklog : w.project_id = last_args[1]
                                      /\ w.partner \in asked /\ w.present = 1})

\* C26: calculate_payouts changes no project, scenario, share, ledger or
\* audit state, and every report is computed from the state at its call: a
\* share change or an attendance write made between two calls shows in the
\* second report.
C26_ReadOnlyAndFresh == [](C26_ReportOfCurrentState) /\ [][C26_ReadStep]_vars

\* C26 witness: two reports for the same arguments with one write between
\* them; the second report counts a day of attendance the first did not.
C26_Witness ==
    /\ ReportOfFoundProject
    /\ prev_op = "calculate_payouts" /\ prev_args = last_args
    /\ prev_ret.error = ""
    /\ \E p \in DOMAIN last_ret.payouts \cap DOMAIN prev_ret.payouts :
            last_ret.payouts[p].worked_days > prev_ret.payouts[p].worked_days
    /\ last_ret.total_worked_days > prev_ret.total_worked_days

-----------------------------------------------------------------------------
(* Properties of the audit of the default flag *)

\* The ids of the scenarios stored before and after a step whose is_default
\* flag the step changed.
FlagChanged ==
    {s.id : s \in {x \in scenarios :
                    \E y \in scenarios' : y.id = x.id /\ y.is_default # x.is_default}}

\* C27: a step that changes the is_default flag of a scenario appends an
\* audit entry with that scenario's id that holds the values before and the
\* values after.
C27_FlagChangeAudited ==
    [][\A scenario_id \in FlagChanged :
        \E a \in audit_log' \ audit_log :
            /\ a.entity_id = scenario_id
            /\ a.entity_type = "scenario"
            /\ a.old_value # Null /\ a.new_value # Null]_vars

-----------------------------------------------------------------------------
(* Properties of the frame of a scenario delete *)

\* C28: a delete_scenario(id) that returns True removes the scenario row of
\* id and every share row of id and no other row: the other scenarios, their
\* share rows, the projects, the ledger and the users are as before.  A
\* delete_scenario that returns False changes no table, and for an id that no
\* scenario has it returns False with the message "Scenariusz nie istnieje".
C28_DeleteFrame ==
    [][last_op' = "delete_scenario" =>
        LET scenario_id == last_args'[1]
            stored == \E s \in scenarios : s.id = scenario_id
        IN  /\ ~stored =>
                    /\ last_ret'[1] = FALSE
                    /\ last_ret'[2] = "Scenariusz nie istnieje"
            /\ last_ret'[1] = TRUE =>
                    /\ stored
                    /\ scenarios' = {s \in scenarios : s.id # scenario_id}
                    /\ scenario_shares'
                            = {r \in scenario_shares : r.scenario_id # scenario_id}
                    /\ UNCHANGED <<projects, worklog, users>>
            /\ last_ret'[1] = FALSE =>
                    UNCHANGED <<scenarios, scenario_shares, audit_log, projects,
                                worklog, users, seq>>]_vars

\* C28 witness: scenario 3 was deleted with the three share rows of the
\* migration; no share row refers to it and the six rows of the other two
\* scenarios are stored.
C28_Witness ==
    /\ last_op = "delete_scenario" /\ last_ret[1] = TRUE
    /\ seq.scenario_shares = 9
    /\ \A r \in scenario_shares : r.scenario_id # last_args[1]
    /\ Cardinality(scenario_shares) = 6
    /\ Cardinality(scenarios) = 2

-----------------------------------------------------------------------------
(* Properties of set_scenario_shares as one step *)

\* A set_scenario_shares call is in progress.
SavingShares == txn_pc # "idle" /\ txn.op = "set_scenario_shares"

\* While a set_scenario_shares call is in progress, a read of its scenario by
\* another connection returns the complete map stored before the call.
C29_ReadsSeeOldMap ==
    (SavingShares /\ last_op = "get_scenario_shares" /\ last_args[1] = txn.args[1])
        => last_ret = txn.old_shares

\* No step that leaves the call in progress changes what is stored; the
\* step that ends it either stores the whole new map with its audit entry
\* (commit) or, when an INSERT failed, changes no table.
C29_SaveStep ==
    /\ SavingShares' =>
            UNCHANGED <<scenarios, scenario_shares, audit_log>>
    /\ (SavingShares /\ txn_pc' = "idle") =>
            LET scenario_id == txn.args[1]
                stored == get_scenario_shares(DB', scenario_id)
            IN  IF last_ret' = None
                THEN /\ DOMAIN stored = DOMAIN txn.args[2]
                     /\ \A p \in DOMAIN stored : NumEq(stored[p], txn.args[2][p])
                     /\ Cardinality(audit_log' \ audit_log) = 1
                ELSE /\ stored = txn.old_shares
                     /\ UNCHANGED <<scenarios, scenario_shares, audit_log, seq>>

\* C29: set_scenario_shares takes effect as one step: no read of another
\* connection returns a map with the old shares deleted and the new ones not
\* yet inserted, and when an INSERT fails part-way the scenario keeps its
\* complete old map and no audit entry is added.
C29_SharesSavedAtomically == [](C29_ReadsSeeOldMap) /\ [][C29_SaveStep]_vars

\* C29 witness: the call in progress has deleted the old rows and inserted
\* one of two new ones in its working copy, and a read of another connection
\* has just returned the complete old map of three partners.
C29_Witness ==
    /\ SavingShares /\ txn_pc = "insert" /\ Len(txn.keys) = 1
    /\ Cardinality({r \in txn.db.scenario_shares : r.scenario_id = txn.args[1]}) = 1
    /\ last_op = "get_scenario_shares" /\ last_args[1] = txn.args[1]
    /\ DOMAIN last_ret = {"W1", "W2", "W3"}
    /\ last_ret = txn.old_shares

-----------------------------------------------------------------------------
(* Properties of the two statements that move the default flag *)

\* A create_scenario or update_scenario call with is_default set is in
\* progress.
MovingDefault ==
    /\ txn_pc # "idle"
    /\ \/ txn.op = "create_scenario" /\ txn.args[3] # 0
       \/ txn.op = "update_scenario" /\ txn.args[4] # 0

\* The id of the scenario the call in progress writes.
WrittenScenario(d) ==
    IF txn.op = "create_scenario" THEN d.seq.scenarios ELSE txn.args[1]

\* C30 as stated: the statement that clears the flags is a step of its own
\* for the other connections: after it, and before the statement that sets
\* the flag, they read the scenarios with every is_default cleared.
C30_ClearVisibleAlone ==
    [][(MovingDefault /\ txn_pc = "clear" /\ txn_pc' # "clear") =>
        scenarios' = ClearDefaults(DB).scenarios]_vars

\* No statement of the call changes the scenarios the other connections
\* read; the step that ends the call either changes nothing (the name was
\* refused: the clear is rolled back) or makes the clear and the write
\* visible together: no scenario but the one written has the flag, and the
\* one written has it when it is stored.
C30_DefaultStep ==
    /\ MovingDefault' => UNCHANGED <<scenarios, scenario_shares, audit_log>>
    /\ (MovingDefault /\ txn_pc' = "idle") =>
            IF last_ret' = Refused(txn)
            THEN UNCHANGED <<scenarios, scenario_shares, audit_log, seq>>
            ELSE \A s \in scenarios' :
                    s.is_default # 0 <=> s.id = WrittenScenario(DB')

\* A list of scenarios read while the call is in progress shows the default
\* flags the store holds.
C30_ReadsSeeCommitted ==
    (MovingDefault /\ last_op = "get_all_scenarios") =>
        /\ {last_ret[i] : i \in 1..Len(last_ret)} = scenarios
        /\ (DefaultScenarios # {} => last_ret[1].is_default = 1)

\* C30 (amended): create_scenario and update_scenario with is_default set
\* execute the clear and the write of the flag as two statements of one
\* transaction: a read between them shows the store as it was before the
\* call, and the two take effect together at the commit, or not at all.
C30_DefaultMovesInOneCommit == [](C30_ReadsSeeCommitted) /\ [][C30_DefaultStep]_vars

\* C30 witness: the call in progress has cleared every flag in its working
\* copy and not yet written its scenario, and the list another connection
\* has just read still shows the default scenario.
C30_Witness ==
    /\ MovingDefault /\ txn_pc \in {"insert", "update"}
    /\ \A s \in txn.db.scenarios : s.is_default = 0
    /\ last_op = "get_all_scenarios"
    /\ Len(last_ret) > 0 /\ last_ret[1].is_default = 1
    /\ DefaultScenarios # {}

-----------------------------------------------------------------------------
(* Properties of the payouts map *)

\* What the requested partner p is due by the claim: nothing when no days
\* are planned.
DueTo(p) ==
    IF ReportProject.planned_days > 0
    THEN ExpectedPayout(SharesByClaim(ReportProject.scenario)[p],
                        ReportProject.value, ReportProject.planned_days,
                        PresentDays(last_args[1], p))
    ELSE PyInt(0)

\* C31: the payouts map of a report has an entry for exactly the requested
\* partners with a share above 0 in the share map of the project's scenario;
\* every entry repeats the partner's percentage and worked days, and
\* total_paid is the sum over these entries alone: a partner with a positive
\* share who was not requested has no entry and adds nothing.
C31_PayoutsMap ==
    ReportOfFoundProject =>
        LET m == SharesByClaim(ReportProject.scenario)
            entitled == {p \in last_args[2] : p \in DOMAIN m /\ m[p][1] > 0}
        IN  /\ DOMAIN last_ret.payouts = entitled
            /\ \A p \in entitled :
                    /\ NumEq(last_ret.payouts[p].share_pct, m[p])
                    /\ last_ret.payouts[p].worked_days = PresentDays(last_args[1], p)
            /\ NumEq(last_ret.total_paid,
                     NumSum([p \in entitled |-> DueTo(p)], entitled))

\* C31 witness: W2 has a positive share and present days but only W1 was
\* requested: the map has the entry of W1 alone and total_paid is its payout.
C31_Witness ==
    /\ ReportOfFoundProject
    /\ last_args[2] = {"W1"}
    /\ DOMAIN last_ret.payouts = {"W1"}
    /\ LET m == SharesByClaim(ReportProject.scenario)
       IN  "W2" \in DOMAIN m /\ m["W2"][1] > 0
    /\ PresentDays(last_args[1], "W2") > 0
    /\ last_ret.payouts["W1"].payout[1] > 0
    /\ NumEq(last_ret.total_paid, last_ret.payouts["W1"].payout)

-----------------------------------------------------------------------------
(* The audit trail of share maps *)

\* The 'scenario_shares' entries of one scenario id.
ShareEntries(scenario_id) ==
    {a \in audit_log : a.entity_type = "scenario_shares" /\ a.entity_id = scenario_id}

\* Two snapshots hold the same map: the same partners with equal numbers
\* (60 and 60.0 are one number).
SameSnapshot(x, y) ==
    /\ DOMAIN x[2] = DOMAIN y[2]
    /\ \A p \in DOMAIN x[2] : NumEq(x[2][p], y[2][p])

\* The ids that ever had a 'scenario_shares' entry.
SharedIds == {a.entity_id : a \in {b \in audit_log : b.entity_type = "scenario_shares"}}

\* C32: for each scenario id the 'scenario_shares' entries form a chain: the
\* old value of each entry is the new value of the entry before it for the
\* same id, and for a scenario in the store the new value of the latest entry
\* is the share map now stored for it.
C32_ShareAuditChain ==
    \A id \in SharedIds :
        LET es == ShareEntries(id)
            latest == CHOOSE a \in es : \A b \in es : b.id <= a.id
        IN  /\ \A a \in es : \A b \in es :
                    (b.id < a.id /\ ~ \E c \in es : b.id < c.id /\ c.id < a.id)
                        => SameSnapshot(a.old_value, b.new_value)
            /\ id \in {s.id : s \in scenarios}
                    => SameSnapshot(latest.new_value,
                                    json_dumps(get_scenario_shares(DB, id)))

-----------------------------------------------------------------------------
(* Runs of restarts: the script is rerun, scenarios are deleted down to the  *)
(* empty table, share maps are saved under ids the store has issued, also    *)
(* ids of deleted scenarios.                                                 *)

MigrateIds == 1..6

NextMigrate ==
    \/ Restart
    \/ \E scenario_id \in MigrateIds : RemoveScenario(scenario_id)
    \/ \E scenario_id \in 1..seq.scenarios, shares \in {Dict2(PyFloat(60, 1), PyFloat(40, 1))} :
            SaveShares(scenario_id, shares)
    \/ \E scenario \in {"Scenariusz 2"} :
            CreateProject("Projekt", 1, scenario, PyFloat(1000, 1), 10)

SpecMigrate == Init /\ [][NextMigrate]_vars

-----------------------------------------------------------------------------
(* Properties of the migration *)

\* The store after the step holds exactly the three built-in scenarios under
\* fresh ids, each with its built-in share map, the first one the only
\* default, and the audit log has grown by one 'migrated' entry per scenario.
BuiltInsMigrated ==
    /\ Cardinality(scenarios') = Len(ScenarioOrder)
    /\ {s.name : s \in scenarios'} = DOMAIN SCENARIOS
    /\ \A s \in scenarios' :
        /\ s.id > seq.scenarios
        /\ s.is_default = (IF s.name = ScenarioOrder[1] THEN 1 ELSE 0)
        /\ LET m == get_scenario_shares(DB', s.id)
           IN  /\ DOMAIN m = DOMAIN SCENARIOS[s.name]
               /\ \A p \in DOMAIN m : NumEq(m[p], SCENARIOS[s.name][p])
        /\ Cardinality({a \in audit_log' \ audit_log : a.entity_id = s.id}) = 1
    /\ audit_log \subseteq audit_log'
    /\ Cardinality(audit_log' \ audit_log) = Len(ScenarioOrder)
    /\ \A a \in audit_log' \ audit_log :
        /\ a.entity_type = "scenario" /\ a.action = "migrated"
        /\ a.entity_id \in {s.id : s \in scenarios'}
    /\ scenario_shares \subseteq scenario_shares'
    /\ \A r \in scenario_shares' \ scenario_shares :
        r.scenario_id \in {s.id : s \in scenarios'}

-----------------------------------------------------------------------------
(* Project runs: projects are created and deleted, attendance is written    *)
(* under the ids the store has given to projects, also to deleted ones, and *)
(* a share map is saved.                                                     *)

ProjectIds == {1, 2}

NextProjects ==
    \/ \E scenario \in {"Scenariusz 1"} :
            CreateProject("Projekt", 1, scenario, PyFloat(1000, 1), 10)
    \/ \E project_id \in ProjectIds : DeleteProject(project_id)
    \/ \E project_id \in 1..seq.projects, log_date \in LedgerDates,
          partner \in LedgerPartners, present \in {0, 1} :
            LogAttendance(project_id, log_date, partner, present)
    \/ \E shares \in {Dict1(PyFloat(100, 1))} : SetScenarioShares(1, shares)

SpecProjects == Init /\ [][NextProjects]_vars

-----------------------------------------------------------------------------
(* Properties of the frame of a project deletion *)

\* C34: delete_project(p) removes the project p and every attendance entry of
\* p and nothing else: the listing of p is empty and every partner's worked
\* days for p are 0 afterwards, the attendance entries of other projects, the
\* scenarios, the share rows, the users and the audit log stay; a project
\* created later takes an id no project had before and starts with no
\* attendance entry.
C34_DeleteProjectFrame ==
    [][/\ last_op' = "delete_project" =>
            LET p == last_args'[1]
            IN  /\ projects' = {q \in projects : q.id # p}
                /\ worklog' = {w \in worklog : w.project_id # p}
                /\ get_worklog_for_project(DB', p) = <<>>
                /\ \A partner \in {"W1", "W2", "W3", "W4"} :
                        get_worked_days_by_partner(DB', p, {partner})[partner] = 0
                /\ UNCHANGED <<scenarios, scenario_shares, audit_log, users, seq>>
       /\ last_op' = "create_project" =>
            /\ last_ret' > seq.projects
            /\ \A q \in projects : q.id # last_ret'
            /\ get_worklog_for_project(DB', last_ret') = <<>>]_vars

\* C34 witness: project 1 had an attendance entry of a present partner and was
\* deleted with it: neither the project nor an entry of it is left.
C34_Witness ==
    /\ last_op = "delete_project" /\ last_args = <<1>>
    /\ prev_op = "log_attendance" /\ prev_args[1] = 1 /\ prev_args[4] = 1
    /\ \A w \in worklog : w.project_id # 1
    /\ \A q \in projects : q.id # 1
    /\ seq.worklog > 0

-----------------------------------------------------------------------------
(* Rename runs: a scenario is created and given shares, a project is created *)
(* on its name or on a name of no scenario, attendance is written, the       *)
(* scenario is renamed and renamed back, and the report is computed.         *)

RenameNames == {"Nowy", "Zmieniony"}

NextRename ==
    \/ \E name \in {"Nowy"} : CreateScenario(name, "", 0)
    \/ \E scenario_id \in {s.id : s \in scenarios} \ {1, 2, 3},
          shares \in {Dict2(PyFloat(60, 1), PyFloat(40, 1))} :
            SaveShares(scenario_id, shares)
    \/ \E scenario \in {"Nowy", "Brak"}, planned_days \in {0, 2} :
            CreateProject("Projekt", 1, scenario, PyFloat(1000, 1), planned_days)
    \/ \E partner \in {"W1"} : LogAttendance(1, 1, partner, 1)
    \/ \E scenario_id \in {s.id : s \in scenarios} \ {1, 2, 3}, name \in RenameNames :
            RenameScenario(scenario_id, name)
    \/ \E partners \in {{"W1", "W2"}} : CalculatePayouts(1, partners)

SpecRename == Init /\ [][NextRename]_vars

-----------------------------------------------------------------------------
(* Properties of the report for an unknown scenario name *)

\* C35: for a project whose scenario name is the name of no stored scenario
\* and of no entry of the built-in table, calculate_payouts returns a report
\* without an error, with an empty payouts map, total_paid 0 and remaining
\* equal to distributable.
C35_UnknownScenarioReport ==
    (/\ ReportOfFoundProject
     /\ ~ScenarioIsStored(ReportProject.scenario)
     /\ ReportProject.scenario \notin DOMAIN SCENARIOS)
        => /\ last_ret.error = ""
           /\ DOMAIN last_ret.payouts = {}
           /\ NumEq(last_ret.total_paid, PyInt(0))
           /\ NumEq(last_ret.remaining, last_ret.distributable)
           /\ NumEq(last_ret.distributable,
                    NumSub(ReportProject.value, FirmCut(ReportProject.value)))

\* C35 witness: the project was created on the scenario 'Nowy', which has
\* shares for the present partner W1 and was then renamed; the report of the
\* project pays nobody and leaves the 970 to distribute.
C35_Witness ==
    /\ last_op = "calculate_payouts"
    /\ \E p \in projects : p.id = 1 /\ p.scenario = "Nowy" /\ p.planned_days = 2
    /\ \E s \in scenarios : s.name = "Zmieniony"
            /\ \E r \in scenario_shares :
                    r.scenario_id = s.id /\ r.user_name = "W1" /\ r.share_percentage[1] > 0
    /\ ~ \E s \in scenarios : s.name = "Nowy"
    /\ PresentDays(1, "W1") = 1
    /\ DOMAIN last_ret.payouts = {}
    /\ NumEq(last_ret.remaining, PyInt(970))

-----------------------------------------------------------------------------
(* Binary64 payout runs: the database of a run is the database after the    *)
(* first start, one save of scenario 1's shares, one project on scenario 1  *)
(* and the attendance of W1 and W2; the runs compute the report with the    *)
(* floats of the machine.                                                   *)

FloatShares ==
    {Dict1(PyFloat(100, 1)),
     Dict2(PyFloat(60, 1), PyFloat(40, 1)),
     Dict2(PyFloat(50, 1), PyFloat(50, 1)),
     Dict2(PyFloat(60, 1), PyFloat(30, 1))}

FloatValues == {PyFloat(1000, 1), PyFloat(100, 1)}

FloatPlannedDays == {1, 3, 7}

\* days worked by W1, W2
FloatWorked == {<<7, 7>>, <<3, 3>>, <<1, 1>>, <<3, 1>>, <<0, 2>>}

InitFloat ==
    \E shares \in FloatShares, value \in FloatValues,
       planned_days \in FloatPlannedDays, worked \in FloatWorked :
        LET d0 == init_db(EmptyDB).db
            d1 == set_scenario_shares(d0, 1, shares).db
            d2 == create_project(d1, "Projekt", 1, "Scenariusz 1", value, planned_days).db
            d3 == LogDays(d2, 1, "W1", worked[1])
            d4 == LogDays(d3, 1, "W2", worked[2])
        IN  /\ Load(d4)
            /\ last_op = "init_db" /\ last_args = <<>> /\ last_ret = None
            /\ prev_op = "start" /\ prev_args = <<>> /\ prev_ret = None
            /\ txn_pc = "idle" /\ txn = NoCall

NextFloat ==
    \E project_id \in {1, 2}, partners \in {{"W1", "W2"}, {"W1"}} :
        CalculatePayoutsBinary64(project_id, partners)

SpecFloat == InitFloat /\ [][NextFloat]_vars

-----------------------------------------------------------------------------
(* Properties of the report of a fully worked plan *)

\* The partners with a positive share in the project's scenario.
Shareholders ==
    LET m == SharesByClaim(ReportProject.scenario)
    IN  {p \in DOMAIN m : m[p][1] > 0}

\* The report is one of a project with planned_days >= 1 whose shares sum to
\* exactly 100 and whose shareholders were all asked for.
FullyShared ==
    LET m == SharesByClaim(ReportProject.scenario)
    IN  /\ ReportOfFoundProject
        /\ ReportProject.planned_days >= 1
        /\ NumEq(NumSum(m, DOMAIN m), PyInt(100))
        /\ Shareholders \subseteq last_args[2]

\* C36: when the project has planned_days >= 1, its shares sum to exactly 100
\* and every shareholder was asked for, then total_paid equals distributable
\* and remaining is 0 if every shareholder worked exactly planned_days days,
\* and remaining is not negative if every shareholder worked at most
\* planned_days days.
C36_FullPlanPaysAll ==
    FullyShared =>
        /\ (\A p \in Shareholders :
                PresentDays(last_args[1], p) = ReportProject.planned_days)
            => /\ last_ret.total_paid = last_ret.distributable
               /\ last_ret.remaining = F64Zero
        /\ (\A p \in Shareholders :
                PresentDays(last_args[1], p) <= ReportProject.planned_days)
            => ~F64IsNegative(last_ret.remaining)

====
